---- MODULE Spec2Model ----
(***************************************************************************)
(* Test discovery and execution pipeline of the Hybrid M-Plane test        *)
(* runner (testcases/discovery.py, testcases/tc_hmp_00x.py, runner/main.py,*)
(* oru_controller/opendaylight.py, errors/handler.py), with the archive    *)
(* builder (runner/utils.py) and the configuration loader                  *)
(* (config/config_manager.py) the runner relies on, and the ingestion      *)
(* service that loads the exported archives into the database              *)
(* (visualization/ingestion.py).                                           *)
(*                                                                         *)
(* Python strings on which the code does string operations (test case      *)
(* numbers, module names) are sequences of one-character strings, so that  *)
(* str.split is computed and not assumed.                                  *)
(***************************************************************************)
EXTENDS Integers, Sequences, FiniteSets, TLC

\* ------------------------------------------------------------------ bounds
MaxClasses == 2    \* classes found by one discovery scan
MaxHooks == 2      \* hooks registered in total (suite and global lists)
MaxIds == 2        \* ids in the list handed to run_selected_test_cases
MaxPasses == 2     \* calls of discover_test_cases on one TestDiscovery

\* ------------------------------------------------------- sequence helpers
Range(s) == {s[i] : i \in 1..Len(s)}

IsPrefix(s, t) == Len(s) <= Len(t) /\ SubSeq(t, 1, Len(s)) = s

\* ---------------------------------------------------------- Python str ops
RECURSIVE SplitAcc(_, _, _)
SplitAcc(s, sep, cur) ==
    IF s = <<>> THEN <<cur>>
    ELSE IF Head(s) = sep
         THEN <<cur>> \o SplitAcc(Tail(s), sep, <<>>)
         ELSE SplitAcc(Tail(s), sep, Append(cur, Head(s)))

\* str.split(sep) for a one-character separator
Split(s, sep) == SplitAcc(s, sep, <<>>)

\* ------------------------------------------------ the classes of a package
\* A test case class as discovery and the pipeline see it:
\*   module       name of the module that defines it
\*   number       class attribute `number` (<<>> when the class has none)
\*   has_suite / suite   class attribute `suite`
\*   categories   class attribute `categories` (a list)
\*   inst_number  attribute `number` of an instance (set by __init__)
\*   ctor_none    "ok" | "raise": outcome of cls(None)
\*   shipped      TRUE for the four classes of testcases/tc_hmp_00x.py
\*   package      package whose directory holds the module
\*   listing      rank of the module in the sorted listing of that directory
NoAttr == <<>>

FixtureClasses ==
    [ FixA |-> [module |-> <<"t","c","_","h","m","p","_","0","0","4">>,
                number |-> NoAttr, has_suite |-> TRUE, suite |-> "S",
                categories |-> <<"basic">>,
                inst_number |-> <<"0","0","4">>, ctor_none |-> "ok",
                shipped |-> FALSE,
                package |-> "fixtures.a", listing |-> 1],
      FixB |-> [module |-> <<"t","c","_","h","m","p","_","0","0","5">>,
                number |-> <<"0","0","4",".","2">>, has_suite |-> TRUE, suite |-> "S",
                categories |-> <<"basic", "data">>,
                inst_number |-> <<"0","0","4",".","2">>, ctor_none |-> "ok",
                shipped |-> FALSE,
                package |-> "fixtures.b", listing |-> 1],
      FixC |-> [module |-> <<"t","c","_","h","m","p","_","0","0","6">>,
                number |-> NoAttr, has_suite |-> TRUE, suite |-> "T",
                categories |-> <<"data">>,
                inst_number |-> <<"0","0","6">>, ctor_none |-> "raise",
                shipped |-> FALSE,
                package |-> "fixtures.c", listing |-> 1],
      FixD |-> [module |-> <<"t","c","_","h","m","p","_","0","0","7">>,
                number |-> NoAttr, has_suite |-> FALSE, suite |-> "",
                categories |-> <<>>,
                inst_number |-> <<"0","0","7">>, ctor_none |-> "ok",
                shipped |-> FALSE,
                package |-> "fixtures.d", listing |-> 1] ]

\* the classes of testcases/tc_hmp_001.py .. tc_hmp_004.py: none has a class
\* attribute `number`; __init__ passes "001" .. "004" to the base class
ShippedClasses ==
    [
      TestCase_001 |->
               [module |-> <<"t","c","_","h","m","p","_","0","0","1">>,
                number |-> NoAttr, has_suite |-> TRUE, suite |-> "Basic Connectivity",
                categories |-> <<"basic", "connectivity", "transport">>,
                inst_number |-> <<"0","0","1">>, ctor_none |-> "ok",
                shipped |-> TRUE,
                package |-> "testcases", listing |-> 1],
      TestCase_002 |->
               [module |-> <<"t","c","_","h","m","p","_","0","0","2">>,
                number |-> NoAttr, has_suite |-> TRUE, suite |-> "Data Retrieval",
                categories |-> <<"basic", "data", "restconf">>,
                inst_number |-> <<"0","0","2">>, ctor_none |-> "ok",
                shipped |-> TRUE,
                package |-> "testcases", listing |-> 2],
      TestCase_003 |->
               [module |-> <<"t","c","_","h","m","p","_","0","0","3">>,
                number |-> NoAttr, has_suite |-> TRUE, suite |-> "NETCONF Sessions",
                categories |-> <<"basic", "netconf", "sessions">>,
                inst_number |-> <<"0","0","3">>, ctor_none |-> "ok",
                shipped |-> TRUE,
                package |-> "testcases", listing |-> 3],
      TestCase_004 |->
               [module |-> <<"t","c","_","h","m","p","_","0","0","4">>,
                number |-> NoAttr, has_suite |-> TRUE, suite |-> "O-RU Configuration",
                categories |-> <<"configuration", "operational-info", "restconf">>,
                inst_number |-> <<"0","0","4">>, ctor_none |-> "ok",
                shipped |-> TRUE,
                package |-> "testcases", listing |-> 4] ]

ShippedNames == DOMAIN ShippedClasses

\* a class whose module has the name of FixA's module, in another package:
\* discovery derives the same id "004" for both
CollidingClasses ==
    [ FixE |-> [module |-> <<"t","c","_","h","m","p","_","0","0","4">>,
                number |-> NoAttr, has_suite |-> TRUE, suite |-> "T",
                categories |-> <<"data">>,
                inst_number |-> <<"0","0","4">>, ctor_none |-> "ok",
                shipped |-> FALSE,
                package |-> "fixtures.e", listing |-> 1] ]

\* a class whose module imports but whose class attribute `categories` is None
\* instead of a list: `for category in categories` raises TypeError
MalformedClasses ==
    [ FixF |-> [module |-> <<"t","c","_","h","m","p","_","0","0","8">>,
                number |-> NoAttr, has_suite |-> TRUE, suite |-> "S",
                categories |-> <<>>,
                inst_number |-> <<"0","0","8">>, ctor_none |-> "ok",
                shipped |-> FALSE,
                package |-> "fixtures.f", listing |-> 1] ]

NonIterableCategories == DOMAIN MalformedClasses

Classes == FixtureClasses @@ CollidingClasses @@ MalformedClasses @@ ShippedClasses

FixtureNames == DOMAIN FixtureClasses

ClassNames == DOMAIN Classes

\* ------------------------------------------------------------------- state
VARIABLES
    universe,               \* classes defined by the scanned package
    scanned,                \* classes the scan has already visited
    scan_order,             \* ghost: the classes in the order the scan visited them
    passes,                 \* ghost: calls of discover_test_cases so far
    test_cases,             \* TestDiscovery._test_cases: id -> class
    categories,             \* TestDiscovery._categories: category -> set of ids
    test_suites,            \* TestDiscovery._test_suites, in insertion order
    global_setup_hooks,     \* TestExecutionPipeline._global_setup_hooks
    global_teardown_hooks,  \* TestExecutionPipeline._global_teardown_hooks
    pc,                     \* position of the pipeline
    entry,                  \* pipeline entry point in progress
    si,                     \* run_all / run_suite: index of the current suite
    hi,                     \* index of the next hook of the current hook loop
    ci,                     \* index of the next test case of the current loop
    gi,                     \* run_all: number of the current iteration over the suites
    results,                \* local `results` of the suite in progress
    groups,                 \* local `results` of run_all_test_suites
    exc,                    \* exception in flight
    ret,                    \* value returned by the entry point
    log,                    \* ghost: hooks and run() calls executed, in order
    logged,                 \* records written through `logging`
    ids,                    \* run_selected: argument test_case_ids
    selected,               \* run_selected: local `test_case_classes`
    category,               \* run_by_category: argument category
    cat_cases,              \* run_by_category: local `test_cases`
    mpc,                    \* position of main ("none": no orchestrator run)
    config,                 \* the AppConfig main reads
    mexc,                   \* exception that left main
    test_results,           \* HybridMPlaneTests.test_results
    files,                  \* artifact files present in the output directory
    report,                 \* the result document main wrote
    tc,                     \* shipped test case whose run() is applied
    beh,                    \* behaviour of the controller during that run()
    run_result,             \* what that run() did
    result_model,           \* ArchiveBuilder.result_model
    included_artifacts,     \* ArchiveBuilder.included_artifacts
    disk,                   \* local files that exist when the archive is built
    archive,                \* the zip file export_archive writes
    archive_exc,            \* exception that left the last export_archive
    exports,                \* number of export_archive calls made
    config_file,            \* ConfigManager._config_file as the loader finds it
    file_config,            \* what json.load returns for the configuration file
    environ,                \* os.environ
    app_config,             \* ConfigManager._config
    load_exc,               \* exception that left _load_config
    watched,                \* results_*.zip files in DATA_DIR
    events,                 \* file system events the observer has not dispatched yet
    processed_files,        \* ingestion.processed_files
    db_connection,          \* ingestion.db_connection: 0 for None, else a connection
    nconn,                  \* connections psycopg2.connect has returned so far
    closed,                 \* connections on which close() was called
    uncommitted,            \* rows of the open transaction of each connection
    committed,              \* rows committed to the database
    thr,                    \* position of the observer thread and of the main thread
    scans,                  \* calls of scan_existing_files so far
    attempts                \* ghost: the calls of process_test_results_file

vars == <<universe, scanned, scan_order, passes, test_cases, categories, test_suites,
          global_setup_hooks, global_teardown_hooks, pc, entry, si, hi, ci, gi,
          results, groups, exc, ret, log, logged, ids, selected,
          category, cat_cases,
          mpc, config, mexc, test_results, files, report, tc, beh, run_result,
          result_model, included_artifacts, disk, archive, archive_exc, exports,
          config_file, file_config, environ, app_config, load_exc,
          watched, events, processed_files, db_connection, nconn, closed,
          uncommitted, committed, thr, scans, attempts>>

scanVars == <<universe, scanned, scan_order, passes>>
registry == <<test_cases, categories, test_suites>>
hookLists == <<global_setup_hooks, global_teardown_hooks>>
callState == <<entry, si, hi, ci, gi, results, groups, exc, ret, log, logged>>
selVars == <<ids, selected>>
catVars == <<category, cat_cases>>
mainVars == <<mpc, config, mexc, test_results, files, report>>
caseVars == <<tc, beh, run_result>>
archiveVars == <<result_model, included_artifacts, disk, archive, archive_exc, exports>>
loaderVars == <<config_file, file_config, environ, app_config, load_exc>>
ingestVars == <<watched, events, processed_files, db_connection, nconn, closed,
                uncommitted, committed, thr, scans, attempts>>
outerVars == <<selVars, catVars, mainVars, caseVars, archiveVars, loaderVars, ingestVars>>

\* Optional[List[str]]: None, or a list
None == [none |-> TRUE, val |-> <<>>]
Some(v) == [none |-> FALSE, val |-> v]

NoConfig == [use_simulator |-> FALSE, skip_archiving |-> FALSE,
             test_execution |-> [none |-> TRUE, test_cases |-> None,
                                 categories |-> None, suites |-> None]]
NoMainExc == [kind |-> "none", cause |-> "none"]
NoReport == [written |-> FALSE, kind |-> "none", overall |-> "none", groups |-> <<>>]
NoBehaviour == [calls |-> <<>>, initial |-> {}, conns |-> "none", current |-> {},
                valid |-> {}, tls |-> "none", tls_true |-> {}]
\* ArchiveBuilder.__init__: result_model is None; no zip file written yet
NoResults == [none |-> TRUE, doc |-> ""]
NoArchive == [created |-> FALSE, entries |-> <<>>]
NotRun == [raised |-> "none", caught |-> "none", result |-> "pending", metrics |-> <<>>]

NoExc == [kind |-> "none", suite |-> "", idx |-> 0]
Exc(kind, suite, idx) == [kind |-> kind, suite |-> suite, idx |-> idx]
Event(kind, suite, idx, outcome) ==
    [kind |-> kind, suite |-> suite, idx |-> idx, outcome |-> outcome]

\* records written through `logging`
Warning(what) == [level |-> "WARNING", what |-> what]

Error(what) == [level |-> "ERROR", what |-> what]

\* ------------------------------------------------------------- TestSuite
\* TestSuite.__init__
NewSuite(name) ==
    [name |-> name, description |-> "", test_cases |-> <<>>,
     setup_hooks |-> <<>>, teardown_hooks |-> <<>>]

\* mutant of add_test_case: append without the membership test
add_test_case_NoCheck(suite, cls) ==
    [suite EXCEPT !.test_cases = Append(@, cls)]

\* TestSuite.add_test_case
add_test_case(suite, cls) ==
    IF cls \in Range(suite.test_cases) THEN suite
    ELSE [suite EXCEPT !.test_cases = Append(@, cls)]

\* list.append of a hook; a hook is named by its registration rank in its list
AppendHook(hooks) == Append(hooks, Len(hooks) + 1)

TotalHooks ==
    Len(global_setup_hooks) + Len(global_teardown_hooks)
    + (LET RECURSIVE Sum(_)
           Sum(i) == IF i = 0 THEN 0
                     ELSE Len(test_suites[i].setup_hooks)
                          + Len(test_suites[i].teardown_hooks) + Sum(i - 1)
       IN Sum(Len(test_suites)))

SuiteIndex(name) ==
    IF \E i \in 1..Len(test_suites) : test_suites[i].name = name
    THEN CHOOSE i \in 1..Len(test_suites) : test_suites[i].name = name
    ELSE 0

\* ------------------------------------------------------------- discovery
\* mutant of DiscoveredId: the id always taken from the module name
DiscoveredId_ModuleOnly(cls) ==
    LET parts == Split(Classes[cls].module, "_")
    IN parts[Len(parts)]

\* id under which discover_test_cases registers a class
DiscoveredId(cls) ==
    LET tc_id == Classes[cls].number
        parts == Split(Classes[cls].module, "_")
    IN IF tc_id # <<>> THEN tc_id ELSE parts[Len(parts)]

\* mutant of DiscoveredSuite: every class filed in the suite "Default"
DiscoveredSuite_AlwaysDefault(cls) == "Default"

\* suite name under which discover_test_cases files a class
DiscoveredSuite(cls) ==
    IF Classes[cls].has_suite THEN Classes[cls].suite ELSE "Default"

RECURSIVE AddCategories(_, _, _)
AddCategories(cats, names, tc_id) ==
    IF names = <<>> THEN cats
    ELSE LET c == Head(names)
             base == IF c \in DOMAIN cats THEN cats[c] ELSE {}
             next == [k \in DOMAIN cats \cup {c} |->
                        IF k = c THEN base \cup {tc_id} ELSE cats[k]]
         IN AddCategories(next, Tail(names), tc_id)

\* dict insertion of a suite on first reference, then add_test_case
RegisterInSuite(suites, cls) ==
    LET name == DiscoveredSuite(cls)
        with == IF \E i \in 1..Len(suites) : suites[i].name = name
                THEN suites ELSE Append(suites, NewSuite(name))
        i == CHOOSE j \in 1..Len(with) : with[j].name = name
    IN [with EXCEPT ![i] = add_test_case(@, cls)]

\* pkgutil.iter_modules yields the modules of one directory in sorted order
NextInListing(cls) ==
    \A d \in universe \ scanned :
        Classes[d].package = Classes[cls].package =>
            Classes[d].listing >= Classes[cls].listing

\* one class found by the scan of discover_test_cases
Discover(cls) ==
    /\ pc = "discover"
    /\ cls \in universe \ scanned
    /\ cls \notin NonIterableCategories
    /\ NextInListing(cls)
    /\ scanned' = scanned \cup {cls}
    /\ scan_order' = Append(scan_order, cls)
    /\ LET tc_id == DiscoveredId(cls)
       IN /\ test_cases' = [k \in DOMAIN test_cases \cup {tc_id} |->
                               IF k = tc_id THEN cls ELSE test_cases[k]]
          /\ categories' = AddCategories(categories, Classes[cls].categories, tc_id)
    /\ test_suites' = RegisterInSuite(test_suites, cls)
    /\ pc' = IF scanned' = universe THEN "idle" ELSE "discover"
    /\ UNCHANGED <<outerVars, universe, passes, hookLists, callState>>

\* a module whose import (or processing) raises: the except clauses log the
\* error and the scan goes on with the next module
SkipModule(cls) ==
    /\ pc = "discover"
    /\ cls \in universe \ scanned
    /\ NextInListing(cls)
    /\ scanned' = scanned \cup {cls}
    /\ logged' = Append(logged, Error("module not imported"))
    /\ pc' = IF scanned' = universe THEN "idle" ELSE "discover"
    /\ UNCHANGED <<outerVars, universe, scan_order, passes, registry, hookLists,
                   entry, si, hi, ci, gi, results, groups, exc, ret, log>>

\* a module that imports but whose processing raises in the loop over the
\* categories: the class is already stored in _test_cases, the rest of the
\* loop body is not run, `except Exception` logs and the scan goes on
ProcessingFails(cls) ==
    /\ pc = "discover"
    /\ cls \in universe \ scanned
    /\ cls \in NonIterableCategories
    /\ NextInListing(cls)
    /\ scanned' = scanned \cup {cls}
    /\ LET tc_id == DiscoveredId(cls)
       IN test_cases' = [k \in DOMAIN test_cases \cup {tc_id} |->
                            IF k = tc_id THEN cls ELSE test_cases[k]]
    /\ logged' = Append(logged, Error("module not processed"))
    /\ pc' = IF scanned' = universe THEN "idle" ELSE "discover"
    /\ UNCHANGED <<outerVars, universe, scan_order, passes, categories, test_suites,
                   hookLists, entry, si, hi, ci, gi, results, groups, exc, ret, log>>

\* a sub-package whose import raises: the recursive discover_test_cases call
\* and its importlib.import_module are outside the try block, so the exception
\* leaves the scan
AbortScan(cls) ==
    /\ pc = "discover"
    /\ cls \in universe \ scanned
    /\ NextInListing(cls)
    /\ \A d \in scanned : Classes[d].package # Classes[cls].package
    /\ pc' = "raised"
    /\ exc' = Exc("ImportError", "", 0)
    /\ UNCHANGED <<outerVars, scanVars, registry, hookLists,
                   entry, si, hi, ci, gi, results, groups, ret, log, logged>>

\* a further discover_test_cases(package) on the same TestDiscovery: the three
\* dictionaries are created in __init__ only, the scan adds to them
Rediscover(u) ==
    /\ pc = "idle"
    /\ entry = "none"
    /\ passes < MaxPasses
    /\ passes' = passes + 1
    /\ universe' = u
    /\ scanned' = {}
    /\ pc' = IF u = {} THEN "idle" ELSE "discover"
    /\ UNCHANGED <<outerVars, scan_order, registry, hookLists, callState>>

\* ---------------------------------------------------- hook registration
add_setup_hook(s) ==
    /\ pc = "idle" /\ TotalHooks < MaxHooks
    /\ s \in 1..Len(test_suites)
    /\ test_suites' = [test_suites EXCEPT ![s].setup_hooks = AppendHook(@)]
    /\ UNCHANGED <<outerVars, scanVars, test_cases, categories, hookLists, pc, callState>>

add_teardown_hook(s) ==
    /\ pc = "idle" /\ TotalHooks < MaxHooks
    /\ s \in 1..Len(test_suites)
    /\ test_suites' = [test_suites EXCEPT ![s].teardown_hooks = AppendHook(@)]
    /\ UNCHANGED <<outerVars, scanVars, test_cases, categories, hookLists, pc, callState>>

add_global_setup_hook ==
    /\ pc = "idle" /\ TotalHooks < MaxHooks
    /\ global_setup_hooks' = AppendHook(global_setup_hooks)
    /\ UNCHANGED <<outerVars, scanVars, registry, global_teardown_hooks, pc, callState>>

add_global_teardown_hook ==
    /\ pc = "idle" /\ TotalHooks < MaxHooks
    /\ global_teardown_hooks' = AppendHook(global_teardown_hooks)
    /\ UNCHANGED <<outerVars, scanVars, registry, global_setup_hooks, pc, callState>>

\* ------------------------------------------------- the shipped test cases
\* fields pydantic declares on TestCaseConfig; any other attribute access on
\* config.test_cases raises AttributeError
TestCaseConfigFields ==
    {"tc_001_expected_name", "tc_001_expected_status",
     "tc_001_expected_capability", "tc_002_mountpoint_name",
     "tc_002_filter_path", "tc_002_config_path", "tc_003_mountpoint_name"}

\* config.test_cases.<field>: "ok" or the exception the lookup raises
Attr(field) == IF field \in TestCaseConfigFields THEN "ok" ELSE "AttributeError"

\* getattr(config.test_cases, field, default): the default expression is
\* evaluated first (dflt is "" for a literal); a missing field is not an error
GetAttr(field, dflt) == IF dflt = "" THEN "ok" ELSE Attr(dflt)

\* exceptions requests.get and requests.put can raise; the first two are the
\* subclasses of requests.exceptions.Timeout
Raises == {"ReadTimeout", "ConnectTimeout", "ConnectionError"}

Timeouts == {"ReadTimeout", "ConnectTimeout"}

StatusCodes == {200, 204, 409, 413}

\* what one HTTP exchange does on the wire: requests raises, or the response
\* has a status code and a body that is empty, present but without the
\* expected content, or as expected
Exchanges ==
    [raise : Raises, status : {0}, data : {"empty"}]
    \cup [raise : {"none"}, status : StatusCodes, data : {"empty", "other", "expected"}]

NodeIds == {"n1", "n2"}

\* an exchange as its caller sees it: the exception raised, or (status, data)
Raise(e) == [raise |-> e, status |-> 0, data |-> "empty"]

\* ErrorHandler.handle_error: an exception that is not of the target type is
\* converted to it (no exception class derives from ControllerError)
handle_error(e, error_type) == IF e = error_type THEN e ELSE error_type

\* OpenDaylightController._fetch_data under with_error_handling(ControllerError):
\* Timeout becomes TimeoutError, HTTPError (raise_for_status) NetworkError,
\* anything else ControllerError, and the decorator converts each of them
fetch_data(x) ==
    LET body == IF x.raise \in Timeouts THEN Raise("TimeoutError")
                ELSE IF x.raise # "none" THEN Raise("ControllerError")
                ELSE IF x.status = 409 THEN [raise |-> "none", status |-> 409, data |-> "empty"]
                ELSE IF x.status >= 400 THEN Raise("NetworkError")
                ELSE [raise |-> "none", status |-> x.status,
                      data |-> IF x.status = 200 THEN x.data ELSE "empty"]
    IN IF body.raise # "none"
       THEN Raise(handle_error(body.raise, "ControllerError"))
       ELSE body

\* get_netconf_connections and is_tls_ipv4, both under
\* with_error_handling(ControllerError), when their _fetch_data raises
controller_call(fault) ==
    IF fault = "none" THEN "none"
    ELSE handle_error(fetch_data(Raise(fault)).raise, "ControllerError")

\* TestCase_004._make_restconf_put_request: requests.put called directly, the
\* exception logged and re-raised as it is
put_request(x) ==
    IF x.raise # "none" THEN Raise(x.raise)
    ELSE [raise |-> "none", status |-> x.status,
          data |-> IF x.status = 200 THEN x.data ELSE "empty"]

\* behaviour of the controller during one run(): the outcomes of its RESTCONF
\* exchanges in call order, and for TestCase_001 the connections it reports
Behaviours(cls) ==
    IF cls = "TestCase_001"
    THEN [calls : {<<>>}, initial : SUBSET NodeIds,
          conns : Raises \cup {"none"}, current : SUBSET NodeIds,
          valid : SUBSET NodeIds,
          tls : Raises \cup {"none"}, tls_true : SUBSET NodeIds]
    ELSE LET n == CASE cls = "TestCase_002" -> 3
                    [] cls = "TestCase_003" -> 1
                    [] OTHER -> 2
         IN [calls : [1..n -> Exchanges], initial : {{}}, conns : {"none"},
             current : {{}}, valid : {{}}, tls : {"none"}, tls_true : {{}}]

\* how run() ends
Escaped(e) ==
    [raised |-> e, caught |-> "none", result |-> "none", metrics |-> <<>>]
Returned(result, metrics) ==
    [raised |-> "none", caught |-> "none", result |-> result, metrics |-> metrics]

\* mutant of Caught: the except clauses report the run as passed
Caught_Pass(e) ==
    [raised |-> "none", caught |-> e, result |-> "PASS",
     metrics |-> <<IF e = "ReadTimeout" THEN "timeout" ELSE "generic error">>]

\* the except clauses of run(): `except ReadTimeout` adds the timeout metric,
\* `except Exception` the generic error metric; result_status stays FAIL
Caught(e) ==
    [raised |-> "none", caught |-> e, result |-> "FAIL",
     metrics |-> <<IF e = "ReadTimeout" THEN "timeout" ELSE "generic error">>]

PassIf(ok) == IF ok THEN "PASS" ELSE "FAIL"

\* a NetconfNode never equals a str: set difference of node ids (str) and
\* NetconfNode objects removes nothing
StrEqualsNode(node_id, node) == FALSE

\* TestCase_001.run: previous_ids is the set of the NetconfNode objects of
\* controller.initial_connections, current_ids the set of the node ids (str)
\* of the current connections; new_connections are the current connections
\* whose id is in current_ids - previous_ids
NewConnections(b) ==
    LET previous_ids == b.initial
        current_ids == b.current
        new_ids == {i \in current_ids :
                       ~ \E n \in previous_ids : StrEqualsNode(i, n)}
    IN {n \in b.current : n \in new_ids}

\* TestCase_001.run: the try block
TryBody_001(b) ==
    IF b.conns # "none" THEN Caught(controller_call(b.conns))
    ELSE LET new_connections == NewConnections(b)
             valid_connections == new_connections \cap b.valid
         IN IF valid_connections = {}
            THEN Returned("FAIL", <<"connection change">>)
            ELSE IF b.tls # "none" THEN Caught(controller_call(b.tls))
            ELSE Returned(PassIf(valid_connections \cap b.tls_true # {}),
                          <<"connection change">>)

\* TestCase_001.run: the three configuration lookups precede the try block
Run_001(b) ==
    IF Attr("dut_mountpoint_name") # "ok" THEN Escaped(Attr("dut_mountpoint_name"))
    ELSE IF Attr("tc_001_expected_status") # "ok"
         THEN Escaped(Attr("tc_001_expected_status"))
    ELSE IF Attr("tc_001_expected_capability") # "ok"
         THEN Escaped(Attr("tc_001_expected_capability"))
    ELSE TryBody_001(b)

\* TestCase_002._validate_unfiltered_data
ValidateUnfiltered(r) ==
    IF r.status = 200 THEN r.data # "empty"
    ELSE r.status = 413

\* TestCase_002._validate_filtered_data and _validate_config_only_data
ValidateRetrieved(r) == r.status = 200 /\ r.data # "empty"

\* TestCase_002.run: everything happens inside the try block
Run_002(b) ==
    LET lookup == GetAttr("dut_mountpoint_name", "tc_002_mountpoint_name")
        c == [k \in 1..3 |-> fetch_data(b.calls[k])]
    IN IF lookup # "ok" THEN Caught(lookup)
       ELSE IF c[1].raise # "none" THEN Caught(c[1].raise)
       ELSE IF c[2].raise # "none" THEN Caught(c[2].raise)
       ELSE IF c[3].raise # "none" THEN Caught(c[3].raise)
       ELSE Returned(PassIf(ValidateUnfiltered(c[1]) /\ ValidateRetrieved(c[2])
                               /\ ValidateRetrieved(c[3])),
                     <<"data retrieval", "data retrieval", "data retrieval">>)

\* TestCase_003._validate_netconf_sessions
ValidateSessions(r) == r.status = 200 /\ r.data = "expected"

\* TestCase_003.run: _get_netconf_sessions reads dut_mountpoint_name inside
\* the try block
Run_003(b) ==
    LET lookup == Attr("dut_mountpoint_name")
        c == <<fetch_data(b.calls[1])>>
    IN IF lookup # "ok" THEN Caught(lookup)
       ELSE IF c[1].raise # "none" THEN Caught(c[1].raise)
       ELSE Returned(PassIf(ValidateSessions(c[1])), <<"sessions">>)

\* TestCase_004._validate_apply_result
ValidateApply(r) == r.status \in {200, 204}

\* TestCase_004._validate_validation_result
ValidateValidation(r) == r.status = 200 /\ r.data = "expected"

\* TestCase_004.run: PUT of the payload, GET of the configuration; the
\* notification check returns None and adds no metric
Run_004(b) ==
    LET lookup == GetAttr("tc_004_mountpoint_name", "")
        c == <<put_request(b.calls[1]), fetch_data(b.calls[2])>>
    IN IF lookup # "ok" THEN Caught(lookup)
       ELSE IF c[1].raise # "none" THEN Caught(c[1].raise)
       ELSE IF c[2].raise # "none" THEN Caught(c[2].raise)
       ELSE Returned(PassIf(ValidateApply(c[1]) /\ ValidateValidation(c[2])),
                     <<"payload", "apply", "validate">>)

\* cls(controller).run() under behaviour b
Run(cls, b) ==
    CASE cls = "TestCase_001" -> Run_001(b)
      [] cls = "TestCase_002" -> Run_002(b)
      [] cls = "TestCase_003" -> Run_003(b)
      [] cls = "TestCase_004" -> Run_004(b)

\* what the pipeline sees of a run(): a PASS or FAIL result, or an exception
Seen(r) == IF r.raised # "none" THEN "RAISE" ELSE r.result

\* the outcomes run() of each shipped class has over all behaviours
ShippedOutcomes ==
    [cls \in ShippedNames |-> {Seen(Run(cls, b)) : b \in Behaviours(cls)}]

\* ------------------------------------------------------------ run_test_case
\* outcomes cls(controller).run() can have: a PASS result, a FAIL result, or
\* an exception leaving run() (or the constructor)
RunOutcomes(cls) ==
    IF cls \in ShippedNames THEN ShippedOutcomes[cls]
    ELSE {"PASS", "FAIL", "RAISE"}

\* the models.TestCase run() returns
ResultOf(cls, outcome) ==
    [cls |-> cls, number |-> Classes[cls].inst_number, result |-> outcome]

\* mutant of run_test_case: run() called a second time on the instance
run_test_case_Twice(lg, name, i, outcome) ==
    Append(Append(lg, Event("run", name, i, outcome)), Event("run", name, i, outcome))

\* TestExecutionPipeline.run_test_case: one instance constructed with the
\* controller, run() called on it once; the call is recorded in the log
run_test_case(lg, name, i, outcome) ==
    Append(lg, Event("run", name, i, outcome))

\* ----------------------------------------------------------- group number
\* mutant of GroupNumber: the number of the first class taken whole
GroupNumber_Whole(classes) ==
    IF classes = <<>> THEN [number |-> <<"0">>, warned |-> FALSE]
    ELSE IF Classes[classes[1]].ctor_none = "raise"
         THEN [number |-> <<"0">>, warned |-> TRUE]
         ELSE [number |-> Classes[classes[1]].inst_number, warned |-> FALSE]

RECURSIVE StripZeros(_)

\* a numeral without its leading zeros
StripZeros(num) ==
    IF Len(num) > 1 /\ Head(num) = "0" THEN StripZeros(Tail(num)) ELSE num

\* mutant of GroupNumber: the leading segment read as an integer
GroupNumber_Int(classes) ==
    IF classes = <<>> THEN [number |-> <<"0">>, warned |-> FALSE]
    ELSE IF Classes[classes[1]].ctor_none = "raise"
         THEN [number |-> <<"0">>, warned |-> TRUE]
         ELSE [number |-> StripZeros(Split(Classes[classes[1]].inst_number, ".")[1]),
               warned |-> FALSE]

\* the temporary instance classes[0](None) and number.split('.')[0], with the
\* fallback "0"; warned is TRUE when the except branch logs its warning
GroupNumber(classes) ==
    IF classes = <<>> THEN [number |-> <<"0">>, warned |-> FALSE]
    ELSE IF Classes[classes[1]].ctor_none = "raise"
         THEN [number |-> <<"0">>, warned |-> TRUE]
         ELSE [number |-> Split(Classes[classes[1]].inst_number, ".")[1],
               warned |-> FALSE]

TestGroup(number, name, description, groupItems) ==
    [number |-> number, name |-> name, description |-> description,
     groupItems |-> groupItems]


\* what a registered hook can do when called: the two hooks main registers
\* are lambdas that only call logging.info; any other hook may raise
HookOutcomes == IF mpc = "none" THEN {"ok", "raise"} ELSE {"ok"}

\* --------------------------------------------------------------- run_suite
\* mutant of HookAt: the list of hooks walked from its end
HookAt_Reversed(hooks, i) == hooks[Len(hooks) + 1 - i]

\* `for hook in hooks`: the i-th hook called
HookAt(hooks, i) == hooks[i]

\* mutant of AfterSuiteBody: teardown only after a body that did not raise
AfterSuiteBody_NoFinally(raised) == IF raised THEN "s_exit" ELSE "s_teardown"

\* where run_test_suite continues when its try body is left: the finally
\* clause, whether the body raised or not
AfterSuiteBody(raised) == "s_teardown"

\* where run_test_suite continues when a teardown hook raises: the exception
\* leaves run_teardown_hooks and the finally clause
AfterTeardownRaise == "s_exit"

\* mutant of CollectResult: results.insert(0, result)
CollectResult_Prepend(rs, r) == <<r>> \o rs

\* results.append(result)
CollectResult(rs, r) == Append(rs, r)

\* entry of run_test_suite(suite, controller) for the suite at index s
EnterSuite(s) ==
    /\ si' = s
    /\ hi' = 1
    /\ ci' = 1
    /\ results' = <<>>
    /\ pc' = "s_setup"
    /\ log' = Append(log, Event("run_setup_hooks", test_suites[s].name, 0, "call"))

CallRunSuite(s) ==
    /\ pc = "idle"
    /\ s \in 1..Len(test_suites)
    /\ entry' = "run_suite"
    /\ EnterSuite(s)
    /\ UNCHANGED <<outerVars, scanVars, registry, hookLists, gi, groups, exc, ret, logged>>

\* the call of suite.run_teardown_hooks() is recorded when control reaches it
EnterPhase(lg, nextpc, name) ==
    IF nextpc = "s_teardown"
    THEN Append(lg, Event("run_teardown_hooks", name, 0, "call"))
    ELSE lg

\* one hook() of TestSuite.run_setup_hooks
SetupHook ==
    /\ pc = "s_setup"
    /\ hi <= Len(test_suites[si].setup_hooks)
    /\ \E o \in HookOutcomes :
         LET h == HookAt(test_suites[si].setup_hooks, hi)
             name == test_suites[si].name
             lg == Append(log, Event("setup", name, h, o))
         IN IF o = "raise"
            THEN /\ exc' = Exc("setup", name, h)
                 /\ pc' = AfterSuiteBody(TRUE)
                 /\ hi' = 1
                 /\ log' = EnterPhase(lg, pc', name)
            ELSE /\ hi' = hi + 1
                 /\ log' = lg
                 /\ UNCHANGED <<pc, exc>>
    /\ UNCHANGED <<outerVars, scanVars, registry, hookLists, entry, si, ci, gi,
                   results, groups, ret, logged>>

\* run_setup_hooks returns: the loop over suite.test_cases starts
SetupDone ==
    /\ pc = "s_setup"
    /\ hi > Len(test_suites[si].setup_hooks)
    /\ pc' = "s_cases"
    /\ ci' = 1
    /\ UNCHANGED <<outerVars, scanVars, registry, hookLists, entry, si, hi, gi,
                   results, groups, exc, ret, log, logged>>

\* one iteration of the loop: run_test_case(test_case_class, controller)
RunCase ==
    /\ pc = "s_cases"
    /\ ci <= Len(test_suites[si].test_cases)
    /\ LET cls == test_suites[si].test_cases[ci]
           name == test_suites[si].name
       IN \E o \in RunOutcomes(cls) :
            LET lg == run_test_case(log, name, ci, o)
            IN IF o = "RAISE"
               THEN /\ exc' = Exc("case", name, ci)
                    /\ pc' = AfterSuiteBody(TRUE)
                    /\ hi' = 1
                    /\ log' = EnterPhase(lg, pc', name)
                    /\ UNCHANGED <<ci, results>>
               ELSE /\ results' = CollectResult(results, ResultOf(cls, o))
                    /\ ci' = ci + 1
                    /\ log' = lg
                    /\ UNCHANGED <<pc, hi, exc>>
    /\ UNCHANGED <<outerVars, scanVars, registry, hookLists, entry, si, gi,
                   groups, ret, logged>>

\* the loop over suite.test_cases ends: the finally clause runs
CasesDone ==
    /\ pc = "s_cases"
    /\ ci > Len(test_suites[si].test_cases)
    /\ pc' = AfterSuiteBody(FALSE)
    /\ hi' = 1
    /\ log' = EnterPhase(log, pc', test_suites[si].name)
    /\ UNCHANGED <<outerVars, scanVars, registry, hookLists, entry, si, ci, gi,
                   results, groups, exc, ret, logged>>

\* one hook() of TestSuite.run_teardown_hooks, called in the finally clause
TeardownHook ==
    /\ pc = "s_teardown"
    /\ hi <= Len(test_suites[si].teardown_hooks)
    /\ \E o \in HookOutcomes :
         LET h == HookAt(test_suites[si].teardown_hooks, hi)
             name == test_suites[si].name
         IN /\ log' = Append(log, Event("teardown", name, h, o))
            /\ IF o = "raise"
               THEN /\ exc' = Exc("teardown", name, h)
                    /\ pc' = AfterTeardownRaise
                    /\ hi' = IF pc' = "s_teardown" THEN hi + 1 ELSE hi
               ELSE /\ hi' = hi + 1
                    /\ UNCHANGED <<pc, exc>>
    /\ UNCHANGED <<outerVars, scanVars, registry, hookLists, entry, si, ci, gi,
                   results, groups, ret, logged>>

\* run_teardown_hooks returns: the finally clause is left
TeardownDone ==
    /\ pc = "s_teardown"
    /\ hi > Len(test_suites[si].teardown_hooks)
    /\ pc' = "s_exit"
    /\ UNCHANGED <<outerVars, scanVars, registry, hookLists, entry, si, hi, ci, gi,
                   results, groups, exc, ret, log, logged>>

\* mutant of AfterAllBody: global teardown only after a body that did not raise
AfterAllBody_NoFinally(raised) == IF raised THEN "g_exit" ELSE "g_teardown"

\* where run_all_test_suites continues when its try body is left: the finally
\* clause, whether the body raised or not
AfterAllBody(raised) == "g_teardown"

\* the call of the global teardown loop is recorded when control reaches it
EnterGlobalPhase(lg, nextpc) ==
    IF nextpc = "g_teardown"
    THEN Append(lg, Event("global_teardown_loop", "", 0, "call"))
    ELSE lg

\* run_test_suite returns its TestGroup
SuiteReturn ==
    /\ pc = "s_exit"
    /\ exc = NoExc
    /\ LET suite == test_suites[si]
           gn == GroupNumber(suite.test_cases)
           test_group == TestGroup(gn.number, suite.name, suite.description, results)
       IN /\ logged' = IF gn.warned
                       THEN Append(logged, Warning("temporary instance failed"))
                       ELSE logged
          /\ IF entry = "run_all"
             THEN /\ groups' = Append(groups, test_group)
                  /\ gi' = gi + 1
                  /\ pc' = "g_suites"
                  /\ UNCHANGED ret
             ELSE /\ ret' = <<test_group>>
                  /\ pc' = "done"
                  /\ UNCHANGED <<groups, gi>>
    /\ UNCHANGED <<outerVars, scanVars, registry, hookLists, entry, si, hi, ci,
                   results, exc, log>>

\* an exception leaves run_test_suite
SuiteRaise ==
    /\ pc = "s_exit"
    /\ exc # NoExc
    /\ IF entry = "run_all"
       THEN /\ pc' = AfterAllBody(TRUE)
            /\ hi' = 1
            /\ log' = EnterGlobalPhase(log, pc')
       ELSE /\ pc' = "raised"
            /\ UNCHANGED <<hi, log>>
    /\ UNCHANGED <<outerVars, scanVars, registry, hookLists, entry, si, ci, gi,
                   results, groups, exc, ret, logged>>

\* ----------------------------------------------------------------- run_all
\* mutant of SuiteOfIteration: the suites visited in reverse order
SuiteOfIteration_Reversed(k) == Len(test_suites) + 1 - k

\* `for suite_name, suite in self._discovery._test_suites.items()`: the suite
\* visited by the k-th iteration (dict iteration is insertion order)
SuiteOfIteration(k) == k

CallRunAll ==
    /\ pc = "idle"
    /\ entry' = "run_all"
    /\ groups' = <<>>
    /\ hi' = 1
    /\ pc' = "g_setup"
    /\ log' = Append(log, Event("global_setup_loop", "", 0, "call"))
    /\ UNCHANGED <<outerVars, scanVars, registry, hookLists, si, ci, gi, results,
                   exc, ret, logged>>

\* one hook() of the loop over self._global_setup_hooks
GlobalSetupHook ==
    /\ pc = "g_setup"
    /\ hi <= Len(global_setup_hooks)
    /\ \E o \in HookOutcomes :
         LET h == HookAt(global_setup_hooks, hi)
             lg == Append(log, Event("global_setup", "", h, o))
         IN IF o = "raise"
            THEN /\ exc' = Exc("global_setup", "", h)
                 /\ pc' = AfterAllBody(TRUE)
                 /\ hi' = 1
                 /\ log' = EnterGlobalPhase(lg, pc')
            ELSE /\ hi' = hi + 1
                 /\ log' = lg
                 /\ UNCHANGED <<pc, exc>>
    /\ UNCHANGED <<outerVars, scanVars, registry, hookLists, entry, si, ci, gi,
                   results, groups, ret, logged>>

GlobalSetupDone ==
    /\ pc = "g_setup"
    /\ hi > Len(global_setup_hooks)
    /\ pc' = "g_suites"
    /\ gi' = 1
    /\ UNCHANGED <<outerVars, scanVars, registry, hookLists, entry, si, hi, ci,
                   results, groups, exc, ret, log, logged>>

\* one iteration of the loop over the suites: run_test_suite(suite, controller)
NextSuite ==
    /\ pc = "g_suites"
    /\ gi <= Len(test_suites)
    /\ EnterSuite(SuiteOfIteration(gi))
    /\ UNCHANGED <<outerVars, scanVars, registry, hookLists, entry, gi, groups,
                   exc, ret, logged>>

\* the loop over the suites ends: the finally clause runs
SuitesDone ==
    /\ pc = "g_suites"
    /\ gi > Len(test_suites)
    /\ pc' = AfterAllBody(FALSE)
    /\ hi' = 1
    /\ log' = EnterGlobalPhase(log, pc')
    /\ UNCHANGED <<outerVars, scanVars, registry, hookLists, entry, si, ci, gi,
                   results, groups, exc, ret, logged>>

\* one hook() of the loop over self._global_teardown_hooks (finally clause)
GlobalTeardownHook ==
    /\ pc = "g_teardown"
    /\ hi <= Len(global_teardown_hooks)
    /\ \E o \in HookOutcomes :
         LET h == HookAt(global_teardown_hooks, hi)
         IN /\ log' = Append(log, Event("global_teardown", "", h, o))
            /\ IF o = "raise"
               THEN /\ exc' = Exc("global_teardown", "", h)
                    /\ pc' = "g_exit"
                    /\ UNCHANGED hi
               ELSE /\ hi' = hi + 1
                    /\ UNCHANGED <<pc, exc>>
    /\ UNCHANGED <<outerVars, scanVars, registry, hookLists, entry, si, ci, gi,
                   results, groups, ret, logged>>

GlobalTeardownDone ==
    /\ pc = "g_teardown"
    /\ hi > Len(global_teardown_hooks)
    /\ pc' = "g_exit"
    /\ UNCHANGED <<outerVars, scanVars, registry, hookLists, entry, si, hi, ci, gi,
                   results, groups, exc, ret, log, logged>>

\* run_all_test_suites returns its list of TestGroups
AllReturn ==
    /\ pc = "g_exit"
    /\ exc = NoExc
    /\ ret' = groups
    /\ pc' = "done"
    /\ UNCHANGED <<outerVars, scanVars, registry, hookLists, entry, si, hi, ci, gi,
                   results, groups, exc, log, logged>>

\* an exception leaves run_all_test_suites
AllRaise ==
    /\ pc = "g_exit"
    /\ exc # NoExc
    /\ pc' = "raised"
    /\ UNCHANGED <<outerVars, scanVars, registry, hookLists, entry, si, hi, ci, gi,
                   results, groups, exc, ret, log, logged>>

\* ------------------------------------------------------------ run_selected
\* run_selected_test_cases(test_case_ids, controller); iterating None raises
\* TypeError before any test case runs
CallRunSelected(arg) ==
    /\ pc = "idle"
    /\ entry' = "run_selected"
    /\ ids' = arg
    /\ selected' = <<>>
    /\ results' = <<>>
    /\ ci' = 1
    /\ IF arg.none
       THEN /\ pc' = "raised"
            /\ exc' = Exc("TypeError", "", 0)
       ELSE /\ pc' = "sel_cases"
            /\ UNCHANGED exc
    /\ UNCHANGED <<catVars, mainVars, caseVars, archiveVars, loaderVars, ingestVars,
                   scanVars, registry, hookLists,
                   si, hi, gi, groups, ret, log, logged>>

\* TestDiscovery.get_test_case: dict.get, None for an unknown id
get_test_case(tc_id) ==
    IF tc_id \in DOMAIN test_cases
    THEN [none |-> FALSE, val |-> test_cases[tc_id]]
    ELSE [none |-> TRUE, val |-> ""]

\* mutant of IdOfIteration: the requested ids visited last to first
IdOfIteration_Reversed(k) == Len(ids.val) + 1 - k

\* `for tc_id in test_case_ids`: the position of the list the k-th iteration
\* visits
IdOfIteration(k) == k

\* mutant of MissLog: an unknown id is skipped silently
MissLog_Silent(lg) == lg

\* else branch of `if test_case_class:`: one logging.warning call
MissLog(lg) == Append(lg, Warning("test case not found"))

\* one iteration of `for tc_id in test_case_ids`
SelectedCase ==
    /\ pc = "sel_cases"
    /\ ci <= Len(ids.val)
    /\ LET tc_id == ids.val[IdOfIteration(ci)]
           test_case_class == get_test_case(tc_id)
       IN IF ~ test_case_class.none
          THEN LET cls == test_case_class.val
               IN /\ selected' = Append(selected, cls)
                  /\ \E o \in RunOutcomes(cls) :
                       /\ log' = run_test_case(log, "Selected Test Cases", ci, o)
                       /\ IF o = "RAISE"
                          THEN /\ exc' = Exc("case", "Selected Test Cases", ci)
                               /\ pc' = "raised"
                               /\ UNCHANGED <<ci, results>>
                          ELSE /\ results' = CollectResult(results, ResultOf(cls, o))
                               /\ ci' = ci + 1
                               /\ UNCHANGED <<pc, exc>>
                  /\ UNCHANGED logged
          ELSE /\ logged' = MissLog(logged)
               /\ ci' = ci + 1
               /\ UNCHANGED <<selected, results, pc, exc, log>>
    /\ UNCHANGED <<catVars, mainVars, caseVars, archiveVars, loaderVars, ingestVars,
                   scanVars, registry, hookLists,
                   entry, si, hi, gi, groups, ret, ids>>

\* run_selected_test_cases returns its TestGroup
SelectedReturn ==
    /\ pc = "sel_cases"
    /\ ci > Len(ids.val)
    /\ LET gn == GroupNumber(selected)
       IN /\ ret' = <<TestGroup(gn.number, "Selected Test Cases", ids.val, results)>>
          /\ logged' = IF gn.warned
                       THEN Append(logged, Warning("temporary instance failed"))
                       ELSE logged
    /\ pc' = "done"
    /\ UNCHANGED <<outerVars, scanVars, registry, hookLists, entry, si, hi, ci,
                   gi, results, groups, exc, log>>

\* --------------------------------------------------------- run_by_category
\* the enumerations of a finite set, each element once
Orders(S) ==
    {o \in [1..Cardinality(S) -> S] :
        \A i, j \in 1..Cardinality(S) : o[i] = o[j] => i = j}

\* mutant of get_test_cases_by_category: every registered class, whatever the
\* category
get_test_cases_by_category_All(cat) ==
    {[k \in 1..Len(o) |-> test_cases[o[k]]] : o \in Orders(DOMAIN test_cases)}

\* TestDiscovery.get_test_cases_by_category: [] for an unknown category, else
\* a list comprehension over a set of str, whose iteration order is not fixed
get_test_cases_by_category(cat) ==
    IF cat \notin DOMAIN categories THEN {<<>>}
    ELSE {[k \in 1..Len(o) |-> test_cases[o[k]]] :
             o \in Orders({t \in categories[cat] : t \in DOMAIN test_cases})}

\* categories a caller asks for
RequestCategories == {"basic", "data", "nosuch"}

\* f"Category: {category}"
CategoryGroupName(cat) ==
    CASE cat = "basic" -> "Category: basic"
      [] cat = "data" -> "Category: data"
      [] cat = "nosuch" -> "Category: nosuch"

\* mutant of CallRunByCategory: the category resolved with dict.pop, which
\* takes its entry out of the category map
CallRunByCategory_Pop(cat) ==
    /\ pc = "idle"
    /\ entry' = "run_by_category"
    /\ category' = cat
    /\ cat_cases' \in get_test_cases_by_category(cat)
    /\ categories' = [k \in DOMAIN categories \ {cat} |-> categories[k]]
    /\ results' = <<>>
    /\ ci' = 1
    /\ pc' = "c_cases"
    /\ UNCHANGED <<selVars, mainVars, caseVars, archiveVars, loaderVars, ingestVars,
                   scanVars, test_cases, test_suites,
                   hookLists, si, hi, gi, groups, exc, ret, log, logged>>

\* run_test_cases_by_category(category, controller): the lookup of the classes
CallRunByCategory(cat) ==
    /\ pc = "idle"
    /\ entry' = "run_by_category"
    /\ category' = cat
    /\ cat_cases' \in get_test_cases_by_category(cat)
    /\ results' = <<>>
    /\ ci' = 1
    /\ pc' = "c_cases"
    /\ UNCHANGED <<selVars, mainVars, caseVars, archiveVars, loaderVars, ingestVars,
                   scanVars, registry, hookLists,
                   si, hi, gi, groups, exc, ret, log, logged>>

\* one iteration of `for test_case_class in test_cases`
CategoryCase ==
    /\ pc = "c_cases"
    /\ ci <= Len(cat_cases)
    /\ LET cls == cat_cases[ci]
           name == CategoryGroupName(category)
       IN \E o \in RunOutcomes(cls) :
            /\ log' = run_test_case(log, name, ci, o)
            /\ IF o = "RAISE"
               THEN /\ exc' = Exc("case", name, ci)
                    /\ pc' = "raised"
                    /\ UNCHANGED <<ci, results>>
               ELSE /\ results' = CollectResult(results, ResultOf(cls, o))
                    /\ ci' = ci + 1
                    /\ UNCHANGED <<pc, exc>>
    /\ UNCHANGED <<outerVars, scanVars, registry, hookLists, entry, si, hi, gi,
                   groups, ret, logged>>

\* run_test_cases_by_category returns its TestGroup
CategoryReturn ==
    /\ pc = "c_cases"
    /\ ci > Len(cat_cases)
    /\ LET gn == GroupNumber(cat_cases)
       IN /\ ret' = <<TestGroup(gn.number, CategoryGroupName(category),
                                category, results)>>
          /\ logged' = IF gn.warned
                       THEN Append(logged, Warning("temporary instance failed"))
                       ELSE logged
    /\ pc' = "done"
    /\ UNCHANGED <<outerVars, scanVars, registry, hookLists, entry, si, hi, ci,
                   gi, results, groups, exc, log>>

\* ----------------------------------------------------------- specification
Packages == {u \in SUBSET FixtureNames : Cardinality(u) <= MaxClasses}

\* TestDiscovery() and TestExecutionPipeline(discovery) just constructed
PipelineStart ==
    /\ scanned = {}
    /\ scan_order = <<>>
    /\ passes = 1
    /\ test_cases = <<>>
    /\ categories = <<>>
    /\ test_suites = <<>>
    /\ global_setup_hooks = <<>>
    /\ global_teardown_hooks = <<>>
    /\ entry = "none"
    /\ si = 0 /\ hi = 0 /\ ci = 0 /\ gi = 0
    /\ results = <<>>
    /\ groups = <<>>
    /\ exc = NoExc
    /\ ret = <<>>
    /\ log = <<>>
    /\ logged = <<>>
    /\ ids = None
    /\ selected = <<>>
    /\ category = ""
    /\ cat_cases = <<>>

\* no orchestrator run: the pipeline is driven directly
MainAbsent ==
    /\ mpc = "none"
    /\ config = NoConfig
    /\ mexc = NoMainExc
    /\ test_results = <<>>
    /\ files = {}
    /\ report = NoReport

CaseAbsent ==
    /\ tc = "none"
    /\ beh = NoBehaviour
    /\ run_result = NotRun

\* no ArchiveBuilder in use
ArchiveAbsent ==
    /\ result_model = NoResults
    /\ included_artifacts = <<>>
    /\ disk = {}
    /\ archive = NoArchive
    /\ archive_exc = "none"
    /\ exports = 0

\* no ingestion service running
IngestAbsent ==
    /\ watched = {}
    /\ events = <<>>
    /\ processed_files = {}
    /\ db_connection = 0
    /\ nconn = 0
    /\ closed = {}
    /\ uncommitted = <<>>
    /\ committed = <<>>
    /\ thr = <<>>
    /\ scans = 0
    /\ attempts = <<>>

\* no ConfigManager in use
LoaderAbsent ==
    /\ config_file = "unused"
    /\ file_config = <<>>
    /\ environ = {}
    /\ app_config = <<>>
    /\ load_exc = "none"

Init ==
    /\ universe \in Packages
    /\ pc = IF universe = {} THEN "idle" ELSE "discover"
    /\ PipelineStart
    /\ IngestAbsent
    /\ ArchiveAbsent
    /\ LoaderAbsent
    /\ MainAbsent
    /\ CaseAbsent

Next ==
    \/ \E cls \in ClassNames : Discover(cls)
    \/ \E s \in 1..Len(test_suites) : add_setup_hook(s)
    \/ \E s \in 1..Len(test_suites) : add_teardown_hook(s)
    \/ add_global_setup_hook
    \/ add_global_teardown_hook
    \/ \E s \in 1..Len(test_suites) : CallRunSuite(s)
    \/ SetupHook
    \/ SetupDone
    \/ RunCase
    \/ CasesDone
    \/ TeardownHook
    \/ TeardownDone
    \/ SuiteReturn
    \/ SuiteRaise
    \/ CallRunAll
    \/ GlobalSetupHook
    \/ GlobalSetupDone
    \/ NextSuite
    \/ SuitesDone
    \/ GlobalTeardownHook
    \/ GlobalTeardownDone
    \/ AllReturn
    \/ AllRaise

Spec == Init /\ [][Next]_vars

\* ----------------- selection of test cases by id, by category and by suite
\* ids a caller asks for: those the fixture classes register under, and one
\* that no class registers under
RequestIds ==
    {<<"0","0","4">>, <<"0","0","4",".","2">>, <<"0","0","6">>, <<"9","9","9">>}

IdLists ==
    UNION {[1..n -> RequestIds] : n \in 0..MaxIds}

SelectArgs == {None} \cup {Some(l) : l \in IdLists}

NextSelect ==
    \/ \E cls \in ClassNames : Discover(cls)
    \/ \E s \in 1..Len(test_suites) : CallRunSuite(s)
    \/ SetupDone
    \/ RunCase
    \/ CasesDone
    \/ TeardownDone
    \/ SuiteReturn
    \/ SuiteRaise
    \/ \E arg \in SelectArgs : CallRunSelected(arg)
    \/ SelectedCase
    \/ SelectedReturn
    \/ \E cat \in RequestCategories : CallRunByCategory(cat)
    \/ CategoryCase
    \/ CategoryReturn
    \/ CallRunAll
    \/ GlobalSetupDone
    \/ NextSuite
    \/ SuitesDone
    \/ GlobalTeardownDone
    \/ AllReturn
    \/ AllRaise

SpecSelect == Init /\ [][NextSelect]_vars

\* ------------------------- a call by category on a pipeline holding hooks
NextCategory ==
    \/ \E cls \in ClassNames : Discover(cls)
    \/ \E s \in 1..Len(test_suites) : add_setup_hook(s)
    \/ \E s \in 1..Len(test_suites) : add_teardown_hook(s)
    \/ add_global_setup_hook
    \/ add_global_teardown_hook
    \/ \E cat \in RequestCategories : CallRunByCategory(cat)
    \/ CategoryCase
    \/ CategoryReturn

SpecCategory == Init /\ [][NextCategory]_vars

\* ----------------------------------------- discovery, pass after pass
\* packages handed to discover_test_cases: FixA and FixE collide on the id
\* "004", FixA and FixB share a suite and a category
Roots == {u \in SUBSET {"FixA", "FixB", "FixE"} : Cardinality(u) <= MaxClasses}

InitDiscover ==
    /\ universe \in Roots
    /\ pc = IF universe = {} THEN "idle" ELSE "discover"
    /\ PipelineStart
    /\ IngestAbsent
    /\ ArchiveAbsent
    /\ LoaderAbsent
    /\ MainAbsent
    /\ CaseAbsent

NextDiscover ==
    \/ \E cls \in ClassNames : Discover(cls)
    \/ \E cls \in ClassNames : SkipModule(cls)
    \/ \E cls \in ClassNames : AbortScan(cls)
    \/ \E u \in Roots : Rediscover(u)

SpecDiscover == InitDiscover /\ [][NextDiscover]_vars

\* one scan of a package in which units fail: a module whose import raises,
\* a module whose processing raises
ScanRoots ==
    {u \in SUBSET {"FixA", "FixB", "FixD", "FixE", "FixF"} : Cardinality(u) <= MaxClasses}

InitScan ==
    /\ universe \in ScanRoots
    /\ pc = IF universe = {} THEN "idle" ELSE "discover"
    /\ PipelineStart
    /\ IngestAbsent
    /\ ArchiveAbsent
    /\ LoaderAbsent
    /\ MainAbsent
    /\ CaseAbsent

NextScan ==
    \/ \E cls \in ClassNames : Discover(cls)
    \/ \E cls \in ClassNames : SkipModule(cls)
    \/ \E cls \in ClassNames : ProcessingFails(cls)

SpecScan == InitScan /\ [][NextScan]_vars

\* --------------------------------------------------------- runner/main.py
AppConfigFields ==
    {"paths", "test_metadata", "test_cases", "controller", "simulator",
     "log_level", "test_execution", "skip_archiving"}

TestExecutionConfigFields == {"test_cases", "categories", "suites"}

\* hasattr(config, 'test_execution') and hasattr(config.test_execution, field):
\* hasattr of None is False, hasattr of a TestExecutionConfig is True for
\* each field it declares, whether the field's value is None or not
HasExecutionAttr(cfg, field) ==
    /\ "test_execution" \in AppConfigFields
    /\ ~ cfg.test_execution.none
    /\ field \in TestExecutionConfigFields

\* the if / elif / elif / else chain that picks what main runs
MainMode(cfg) ==
    IF HasExecutionAttr(cfg, "test_cases") THEN "selected"
    ELSE IF HasExecutionAttr(cfg, "categories") THEN "categories"
    ELSE IF HasExecutionAttr(cfg, "suites") THEN "suites"
    ELSE "all"

\* with_error_handling(error_type=HybridMPlaneError) converts what leaves main
MainError(cause) == [kind |-> "HybridMPlaneError", cause |-> cause]

RECURSIVE AnyFail(_)
\* `if tc_result.result == FAIL: result_status = FAIL` over all_results
AnyFail(gs) ==
    IF gs = <<>> THEN FALSE
    ELSE (\E k \in 1..Len(Head(gs).groupItems) :
             Head(gs).groupItems[k].result = "FAIL")
         \/ AnyFail(Tail(gs))

\* mutant of Overall: `result_status = tc_result.result`, so that the last
\* test case decides
Overall_LastDecides(gs) ==
    IF gs = <<>> \/ gs[Len(gs)].groupItems = <<>> THEN "PASS"
    ELSE gs[Len(gs)].groupItems[Len(gs[Len(gs)].groupItems)].result

\* result_status: PASS at first, FAIL once a test case with result FAIL is seen
Overall(gs) == IF AnyFail(gs) THEN "FAIL" ELSE "PASS"

\* artifacts main hands to ArchiveBuilder.include_artifact
Included(cfg) ==
    {"log", "restconf"} \cup (IF cfg.use_simulator THEN {"sim"} ELSE {})

\* configuration, controller, simulator; HybridMPlaneTests() opens the log file
MainStart ==
    /\ mpc = "m_start"
    /\ files' = {"log"}
    /\ \E ctl \in {"ok", "raise"}, sim \in {"ok", "raise"} :
         IF ctl = "raise"
         THEN /\ mpc' = "m_raised"
              /\ mexc' = MainError("controller")
              /\ UNCHANGED pc
         ELSE IF config.use_simulator /\ sim = "raise"
         THEN /\ mpc' = "m_raised"
              /\ mexc' = MainError("simulator")
              /\ UNCHANGED pc
         ELSE /\ mpc' = "m_discover"
              /\ pc' = "discover"
              /\ UNCHANGED mexc
    /\ UNCHANGED <<scanVars, registry, hookLists, callState, selVars, catVars,
                   config, test_results, report, caseVars, archiveVars, loaderVars, ingestVars>>

\* create_test_pipeline() has returned: the two global hooks of the simulator
MainAddHooks ==
    /\ mpc = "m_discover"
    /\ pc = "idle"
    /\ global_setup_hooks' =
          IF config.use_simulator THEN AppendHook(global_setup_hooks)
          ELSE global_setup_hooks
    /\ global_teardown_hooks' =
          IF config.use_simulator THEN AppendHook(global_teardown_hooks)
          ELSE global_teardown_hooks
    /\ mpc' = "m_call"
    /\ UNCHANGED <<scanVars, registry, pc, callState, selVars, catVars,
                   config, mexc, test_results, files, report,
                   caseVars, archiveVars, loaderVars, ingestVars>>

\* first branch: pipeline.run_selected_test_cases(test_case_ids, odl_controller)
MainRunSelected ==
    /\ mpc = "m_call"
    /\ MainMode(config) = "selected"
    /\ CallRunSelected(config.test_execution.test_cases)

\* else branch: pipeline.run_all_test_suites(odl_controller)
MainRunAll ==
    /\ mpc = "m_call"
    /\ MainMode(config) = "all"
    /\ CallRunAll

\* the pipeline returned: the groups go to test_object.test_results
MainCollect ==
    /\ mpc = "m_call"
    /\ pc = "done"
    /\ test_results' = ret
    /\ mpc' = "m_logs"
    /\ UNCHANGED <<scanVars, registry, hookLists, pc, callState, selVars, catVars,
                   config, mexc, files, report,
                   caseVars, archiveVars, loaderVars, ingestVars>>

\* the pipeline raised: nothing in main catches it
MainPipelineRaised ==
    /\ mpc = "m_call"
    /\ pc = "raised"
    /\ mpc' = "m_raised"
    /\ mexc' = MainError(exc.kind)
    /\ UNCHANGED <<scanVars, registry, hookLists, pc, callState, selVars, catVars,
                   config, test_results, files, report,
                   caseVars, archiveVars, loaderVars, ingestVars>>

\* RESTCONF debug log and simulator log: a failure is logged, not re-raised
MainLogs ==
    /\ mpc = "m_logs"
    /\ \E restconf \in BOOLEAN, sim \in BOOLEAN :
         /\ files' = files
                \cup (IF restconf THEN {"restconf"} ELSE {})
                \cup (IF config.use_simulator /\ sim THEN {"sim"} ELSE {})
         /\ logged' = IF restconf THEN logged
                      ELSE Append(logged, Warning("RESTCONF debug log"))
    /\ mpc' = "m_write"
    /\ UNCHANGED <<scanVars, registry, hookLists, pc, entry, si, hi, ci, gi,
                   results, groups, exc, ret, log, selVars, catVars,
                   config, mexc, test_results, report, caseVars, archiveVars, loaderVars, ingestVars>>

\* skip_archiving: the results file; otherwise ArchiveBuilder.export_archive,
\* which writes the artifacts before results.json and raises on a missing one
MainWrite ==
    /\ mpc = "m_write"
    /\ IF config.skip_archiving
       THEN /\ report' = [written |-> TRUE, kind |-> "results",
                          overall |-> Overall(test_results),
                          groups |-> test_results]
            /\ mpc' = "m_done"
            /\ UNCHANGED <<mexc, files>>
       ELSE IF Included(config) \subseteq files
       THEN /\ report' = [written |-> TRUE, kind |-> "archive",
                          overall |-> Overall(test_results),
                          groups |-> test_results]
            /\ files' = files \ Included(config)
            /\ mpc' = "m_done"
            /\ UNCHANGED mexc
       ELSE /\ mpc' = "m_raised"
            /\ mexc' = MainError("archive")
            /\ UNCHANGED <<report, files>>
    /\ UNCHANGED <<scanVars, registry, hookLists, pc, callState, selVars, catVars,
                   config, test_results, caseVars, archiveVars, loaderVars, ingestVars>>

\* test case ids as the configuration can list them
SelectableIds ==
    { <<<<"0","0","1">>>>,
      <<<<"0","0","2">>, <<"0","0","4">>>>,
      <<<<"9","9","9">>, <<"0","0","3">>>> }

TestExecutions ==
    {NoConfig.test_execution}
    \cup [none : {FALSE},
          test_cases : {None} \cup {Some(l) : l \in SelectableIds},
          categories : {None, Some(<<"basic">>)},
          suites : {None, Some(<<"Default">>)}]

Configs ==
    [use_simulator : BOOLEAN, skip_archiving : BOOLEAN,
     test_execution : TestExecutions]

InitMain ==
    /\ universe = ShippedNames
    /\ pc = "none"
    /\ PipelineStart
    /\ IngestAbsent
    /\ ArchiveAbsent
    /\ LoaderAbsent
    /\ mpc = "m_start"
    /\ config \in Configs
    /\ mexc = NoMainExc
    /\ test_results = <<>>
    /\ files = {}
    /\ report = NoReport
    /\ CaseAbsent

NextMain ==
    \/ MainStart
    \/ \E cls \in ShippedNames : Discover(cls)
    \/ \E cls \in ShippedNames : SkipModule(cls)
    \/ MainAddHooks
    \/ MainRunSelected
    \/ MainRunAll
    \/ SelectedCase
    \/ SelectedReturn
    \/ GlobalSetupHook
    \/ GlobalSetupDone
    \/ NextSuite
    \/ SuitesDone
    \/ SetupDone
    \/ RunCase
    \/ CasesDone
    \/ TeardownDone
    \/ SuiteReturn
    \/ SuiteRaise
    \/ GlobalTeardownHook
    \/ GlobalTeardownDone
    \/ AllReturn
    \/ AllRaise
    \/ MainCollect
    \/ MainPipelineRaised
    \/ MainLogs
    \/ MainWrite

SpecMain == InitMain /\ [][NextMain]_vars

\* ------------------------------------- run() of a shipped test case, alone
InitCase ==
    /\ universe = {}
    /\ pc = "none"
    /\ PipelineStart
    /\ IngestAbsent
    /\ ArchiveAbsent
    /\ LoaderAbsent
    /\ MainAbsent
    /\ tc \in ShippedNames
    /\ beh \in Behaviours(tc)
    /\ run_result = NotRun

\* tc(controller).run() against a controller that behaves as beh
RunShipped ==
    /\ tc \in ShippedNames
    /\ run_result = NotRun
    /\ run_result' = Run(tc, beh)
    /\ UNCHANGED <<scanVars, registry, hookLists, pc, callState, selVars, catVars,
                   mainVars, archiveVars, loaderVars, ingestVars, tc, beh>>

NextCase == RunShipped

SpecCase == InitCase /\ [][NextCase]_vars

\* ------------- the try block of TestCase_001.run, the lookups that precede
\* ------------- it taken as done
InitConnections ==
    /\ universe = {}
    /\ pc = "none"
    /\ PipelineStart
    /\ IngestAbsent
    /\ ArchiveAbsent
    /\ LoaderAbsent
    /\ MainAbsent
    /\ tc = "TestCase_001"
    /\ beh \in Behaviours(tc)
    /\ run_result = NotRun

\* run() from `try:` to its return against a controller that behaves as beh
RunTryBody_001 ==
    /\ tc = "TestCase_001"
    /\ run_result = NotRun
    /\ run_result' = TryBody_001(beh)
    /\ UNCHANGED <<scanVars, registry, hookLists, pc, callState, selVars, catVars,
                   mainVars, archiveVars, loaderVars, ingestVars, tc, beh>>

NextConnections == RunTryBody_001

SpecConnections == InitConnections /\ [][NextConnections]_vars

\* ------------------------------------------- ArchiveBuilder (runner/utils.py)
MaxArtifacts == 2
MaxExports == 2

\* local paths handed to include_artifact; each is stored in the archive
\* under its own name
ArtifactPaths == {"log", "restconf"}

\* TestResultsSummary objects handed to set_results
Summaries == {"summary_a", "summary_b"}

\* ArchiveBuilder.results_file_name
results_file_name == "results.json"

\* result_model.model_dump_json(exclude_none=True, by_alias=True)
model_dump_json(doc) == <<"json", doc>>

\* ArchiveBuilder.set_results
set_results(doc) ==
    /\ doc \in Summaries
    /\ result_model' = [none |-> FALSE, doc |-> doc]
    /\ UNCHANGED <<included_artifacts, disk, archive, archive_exc, exports>>
    /\ UNCHANGED <<scanVars, registry, hookLists, pc, callState, selVars, catVars,
                   mainVars, caseVars, loaderVars, ingestVars>>

\* ArchiveBuilder.include_artifact: the pair of paths is appended, the local
\* path is not looked at
include_artifact(path) ==
    /\ path \in ArtifactPaths
    /\ Len(included_artifacts) < MaxArtifacts
    /\ included_artifacts' = Append(included_artifacts, <<path, path>>)
    /\ UNCHANGED <<result_model, disk, archive, archive_exc, exports>>
    /\ UNCHANGED <<scanVars, registry, hookLists, pc, callState, selVars, catVars,
                   mainVars, caseVars, loaderVars, ingestVars>>

\* the leading artifacts zip_obj.write can store: it raises FileNotFoundError
\* on the first local path that does not exist
RECURSIVE Written(_)
Written(artifacts) ==
    IF artifacts = <<>> THEN <<>>
    ELSE IF Head(artifacts)[1] \notin disk THEN <<>>
    ELSE <<[name |-> Head(artifacts)[2], data |-> <<"file", Head(artifacts)[1]>>]>>
         \o Written(Tail(artifacts))

\* the members of the zip file after a call that met no missing artifact: the
\* artifacts in inclusion order, then results.json
ExportedEntries(stored) ==
    Append(stored, [name |-> results_file_name,
                    data |-> model_dump_json(result_model.doc)])

\* ArchiveBuilder.export_archive: the check of result_model precedes
\* ZipFile(output_file, "w"), which creates (or truncates) the file; the
\* artifacts are written in inclusion order and results.json last
export_archive ==
    /\ exports < MaxExports
    /\ exports' = exports + 1
    /\ IF result_model.none
       THEN /\ archive_exc' = "Exception"
            /\ UNCHANGED archive
       ELSE LET stored == Written(included_artifacts)
            IN IF Len(stored) < Len(included_artifacts)
               THEN /\ archive_exc' = "FileNotFoundError"
                    /\ archive' = [created |-> TRUE, entries |-> stored]
               ELSE /\ archive_exc' = "none"
                    /\ archive' = [created |-> TRUE,
                                   entries |-> ExportedEntries(stored)]
    /\ UNCHANGED <<result_model, included_artifacts, disk>>
    /\ UNCHANGED <<scanVars, registry, hookLists, pc, callState, selVars, catVars,
                   mainVars, caseVars, loaderVars, ingestVars>>

\* ArchiveBuilder() on a machine where some of the artifact files exist
InitArchive ==
    /\ universe = {}
    /\ pc = "none"
    /\ PipelineStart
    /\ IngestAbsent
    /\ MainAbsent
    /\ CaseAbsent
    /\ LoaderAbsent
    /\ result_model = NoResults
    /\ included_artifacts = <<>>
    /\ disk \in SUBSET ArtifactPaths
    /\ archive = NoArchive
    /\ archive_exc = "none"
    /\ exports = 0

NextArchive ==
    \/ \E doc \in Summaries : set_results(doc)
    \/ \E path \in ArtifactPaths : include_artifact(path)
    \/ export_archive

SpecArchive == InitArchive /\ [][NextArchive]_vars

\* ------------------------------ main: the artifacts of a run and its archive
\* os.path.join(directory, name) for a relative name
join(directory, name) ==
    IF directory = <<>> THEN name
    ELSE IF directory[Len(directory)] = "/" THEN directory \o name
    ELSE directory \o <<"/">> \o name

RECURSIVE replace(_, _, _)
\* str.replace(old, new): every occurrence of old, found from left to right
\* without overlap, gives way to new
replace(text, old, new) ==
    IF Len(text) < Len(old) THEN text
    ELSE IF SubSeq(text, 1, Len(old)) = old
         THEN new \o replace(SubSeq(text, Len(old) + 1, Len(text)), old, new)
         ELSE <<text[1]>> \o replace(Tail(text), old, new)

\* os.path.basename: what follows the last '/'
basename(path) ==
    LET bars == {k \in 1..Len(path) : path[k] = "/"}
    IN IF bars = {} THEN path
       ELSE SubSeq(path, (CHOOSE k \in bars : \A j \in bars : j <= k) + 1, Len(path))

\* paths.output_dir as a configuration can set it ("output" is the default)
OutputDirs ==
    { <<"o","u","t","p","u","t">>,
      <<"o","u","t","p","u","t","/">>,
      <<"o","u","t">>,
      <<"a","/","o","u","t","p","u","t">> }

\* the file names of HybridMPlaneTests.paths, the test id and the timestamp
\* left out: log_*.log, restconf-debug_*.json, pynts-log_*.log
FileNames ==
    [log_path |-> <<"l","o","g">>,
     restconf_log_path |-> <<"r","c">>,
     sim_log_path |-> <<"s","i","m">>]

\* HybridMPlaneTests.paths
paths(cfg) == [k \in DOMAIN FileNames |-> join(cfg.output_dir, FileNames[k])]

\* the keys of `paths` whose file is an artifact of the run
ArtifactKeys(cfg) ==
    <<"log_path", "restconf_log_path">>
        \o (IF cfg.use_simulator THEN <<"sim_log_path">> ELSE <<>>)

\* ArchiveBuilder.results_file_name, as text
ResultsMember == <<"r","e","s","u","l","t","s",".","j","s","o","n">>

\* the path main stores in the Artifact of a test case
RecordedPath(path) == replace(path, <<"o","u","t","p","u","t","/">>, <<>>)

\* the loop over all_results: every test case gets the list of artifacts
MainProcessResults ==
    /\ mpc = "m_process"
    /\ test_results' =
          [g \in 1..Len(test_results) |->
              [test_results[g] EXCEPT !.groupItems =
                  [k \in 1..Len(@) |->
                      [cls |-> @[k].cls, number |-> @[k].number,
                       result |-> @[k].result,
                       artifacts |->
                           [a \in 1..Len(ArtifactKeys(config)) |->
                               RecordedPath(paths(config)[ArtifactKeys(config)[a]])]]]]]
    /\ mpc' = "m_archive"
    /\ UNCHANGED <<scanVars, registry, hookLists, pc, callState, selVars, catVars,
                   config, mexc, files, report, caseVars, archiveVars, loaderVars, ingestVars>>

\* ArchiveBuilder(), set_results, include_artifact for each artifact with the
\* base name of its file as the path within the archive, export_archive
MainArchive ==
    /\ mpc = "m_archive"
    /\ ~ config.skip_archiving
    /\ LET included ==
              [a \in 1..Len(ArtifactKeys(config)) |->
                  <<paths(config)[ArtifactKeys(config)[a]],
                    basename(paths(config)[ArtifactKeys(config)[a]])>>]
           stored == Written(included)
       IN /\ result_model' = [none |-> FALSE, doc |-> test_results]
          /\ included_artifacts' = included
          /\ exports' = exports + 1
          /\ IF Len(stored) < Len(included)
             THEN /\ archive_exc' = "FileNotFoundError"
                  /\ archive' = [created |-> TRUE, entries |-> stored]
                  /\ mpc' = "m_raised"
                  /\ mexc' = MainError("archive")
                  /\ UNCHANGED disk
             ELSE /\ archive_exc' = "none"
                  /\ archive' =
                        [created |-> TRUE,
                         entries |-> Append(stored,
                                        [name |-> ResultsMember,
                                         data |-> model_dump_json(test_results)])]
                  /\ disk' = disk \ {included[a][1] : a \in 1..Len(included)}
                  /\ mpc' = "m_done"
                  /\ UNCHANGED mexc
    /\ UNCHANGED <<scanVars, registry, hookLists, pc, callState, selVars, catVars,
                   config, test_results, files, report, caseVars, loaderVars, ingestVars>>

\* the groups a pipeline can have returned to main
ReturnedGroups ==
    { <<>>,
      <<TestGroup(<<"0">>, "Selected Test Cases", <<>>, <<>>)>>,
      <<TestGroup(<<"0","0","4">>, "S", "", <<ResultOf("FixA", "PASS")>>)>>,
      <<TestGroup(<<"0","0","4">>, "S", "",
                  <<ResultOf("FixA", "FAIL"), ResultOf("FixB", "PASS")>>)>> }

\* main after the pipeline returned and the log files were written, or not
InitExport ==
    /\ universe = {}
    /\ pc = "none"
    /\ PipelineStart
    /\ IngestAbsent
    /\ CaseAbsent
    /\ LoaderAbsent
    /\ mpc = "m_process"
    /\ config \in {[use_simulator |-> sim, skip_archiving |-> FALSE,
                     test_execution |-> NoConfig.test_execution,
                     output_dir |-> dir] :
                        sim \in BOOLEAN, dir \in OutputDirs}
    /\ mexc = NoMainExc
    /\ test_results \in ReturnedGroups
    /\ files = {}
    /\ report = NoReport
    /\ result_model = NoResults
    /\ included_artifacts = <<>>
    /\ disk \in SUBSET {paths(config)[k] : k \in DOMAIN FileNames}
    /\ archive = NoArchive
    /\ archive_exc = "none"
    /\ exports = 0

NextExport ==
    \/ MainProcessResults
    \/ MainArchive

SpecExport == InitExport /\ [][NextExport]_vars

\* ----------------------------------- ConfigManager (config/config_manager.py)
\* Text is a sequence of one-character strings.  A nested dictionary is the
\* function from the paths of its leaves (a path is the sequence of the keys
\* that lead to a leaf) to their values.
MaxEnv == 2

UpperCase ==
    <<"A", "B", "C", "D", "E", "F", "G", "H", "I", "J", "K", "L", "M",
      "N", "O", "P", "Q", "R", "S", "T", "U", "V", "W", "X", "Y", "Z">>

LowerCase ==
    <<"a", "b", "c", "d", "e", "f", "g", "h", "i", "j", "k", "l", "m",
      "n", "o", "p", "q", "r", "s", "t", "u", "v", "w", "x", "y", "z">>

Digits == <<"0", "1", "2", "3", "4", "5", "6", "7", "8", "9">>

\* str.lower
lower(text) ==
    [i \in 1..Len(text) |->
        IF \E k \in 1..Len(UpperCase) : UpperCase[k] = text[i]
        THEN LowerCase[CHOOSE k \in 1..Len(UpperCase) : UpperCase[k] = text[i]]
        ELSE text[i]]

RECURSIVE DecimalValue(_)
DecimalValue(text) ==
    IF text = <<>> THEN 0
    ELSE DecimalValue(SubSeq(text, 1, Len(text) - 1)) * 10
         + (CHOOSE k \in 1..Len(Digits) : Digits[k] = text[Len(text)]) - 1

\* int(text): ValueError unless the text is a decimal number
ParseInt(text) ==
    IF text # <<>> /\ \A i \in 1..Len(text) : text[i] \in Range(Digits)
    THEN [ok |-> TRUE, n |-> DecimalValue(text)]
    ELSE [ok |-> FALSE, n |-> 0]

\* the values of a configuration dictionary: str, int and bool
StrV(text) == [t |-> "str", s |-> text, n |-> 0, b |-> FALSE]
IntV(num) == [t |-> "int", s |-> <<>>, n |-> num, b |-> FALSE]
BoolV(flag) == [t |-> "bool", s |-> <<>>, n |-> 0, b |-> flag]

\* fields of AppConfig and of its sections, by path
OutputDir == <<<<"p", "a", "t", "h", "s">>, <<"o", "u", "t", "p", "u", "t", "_", "d", "i", "r">>>>
Timeout == <<<<"c", "o", "n", "t", "r", "o", "l", "l", "e", "r">>, <<"t", "i", "m", "e", "o", "u", "t">>>>
UseSimulator == <<<<"s", "i", "m", "u", "l", "a", "t", "o", "r">>, <<"u", "s", "e", "_", "s", "i", "m", "u", "l", "a", "t", "o", "r">>>>
SkipArchiving == <<<<"s", "k", "i", "p", "_", "a", "r", "c", "h", "i", "v", "i", "n", "g">>>>

Fields == {OutputDir, Timeout, UseSimulator, SkipArchiving}

\* the annotation of each field
FieldType ==
    [f \in Fields |->
        IF f = Timeout THEN "int"
        ELSE IF f \in {UseSimulator, SkipArchiving} THEN "bool"
        ELSE "str"]

\* AppConfig().model_dump(): the Field(default=...) of each field
Defaults ==
    [f \in Fields |->
        IF f = OutputDir THEN StrV(<<"o", "u", "t", "p", "u", "t">>)
        ELSE IF f = Timeout THEN IntV(10)
        ELSE IF f = UseSimulator THEN BoolV(TRUE)
        ELSE BoolV(FALSE)]

\* two paths of which one leads through the other (or both are the same)
Conflicts(p1, p2) == IsPrefix(p1, p2) \/ IsPrefix(p2, p1)

\* d[k1]...[kn] = value: the leaf is set, and whatever was stored at the path,
\* below it, or in its way is gone
SetLeaf(d, path, value) ==
    [q \in {r \in DOMAIN d : ~Conflicts(r, path)} \cup {path} |->
        IF q = path THEN value ELSE d[q]]

\* ConfigManager._update_nested_dict: dictionaries are merged key by key, any
\* other value of the source replaces what the target holds under that key
update_nested_dict(target, source) ==
    [q \in {r \in DOMAIN target : \A sp \in DOMAIN source : ~Conflicts(r, sp)}
           \cup DOMAIN source |->
        IF q \in DOMAIN source THEN source[q] ELSE target[q]]

\* ConfigManager.__init__: env_prefix = "HMP_"
env_prefix == <<"H", "M", "P", "_">>

\* env_var[len(self._env_prefix):].lower().split('_')
EnvParts(name) ==
    Split(lower(SubSeq(name, Len(env_prefix) + 1, Len(name))), "_")

\* the conversion of env_value to the type of the existing value; a
\* ValueError leaves the text as it is
ConvertLike(existing, env_value) ==
    IF existing.t = "bool"
    THEN BoolV(lower(env_value) \in {<<"t", "r", "u", "e">>, <<"y", "e", "s">>, <<"1">>})
    ELSE IF existing.t = "int"
    THEN (IF ParseInt(env_value).ok THEN IntV(ParseInt(env_value).n)
          ELSE StrV(env_value))
    ELSE StrV(env_value)

\* one iteration of the loop over os.environ.items().  When a part but the
\* last names a value that is no dictionary, `in` or the item assignment
\* raises TypeError, which nothing catches.
OverrideOne(d, name, env_value) ==
    IF ~IsPrefix(env_prefix, name) THEN [raised |-> FALSE, dict |-> d]
    ELSE LET parts == EnvParts(name)
         IN IF Len(parts) < 2 THEN [raised |-> FALSE, dict |-> d]
            ELSE IF \E k \in 1..(Len(parts) - 1) : SubSeq(parts, 1, k) \in DOMAIN d
            THEN [raised |-> TRUE, dict |-> d]
            ELSE IF parts \in DOMAIN d
            THEN [raised |-> FALSE,
                  dict |-> SetLeaf(d, parts, ConvertLike(d[parts], env_value))]
            ELSE [raised |-> FALSE, dict |-> SetLeaf(d, parts, StrV(env_value))]

RECURSIVE override_from_env(_, _)
\* ConfigManager._override_from_env
override_from_env(d, env) ==
    IF env = <<>> THEN [raised |-> FALSE, dict |-> d]
    ELSE LET one == OverrideOne(d, Head(env).name, Head(env).value)
         IN IF one.raised THEN one ELSE override_from_env(one.dict, Tail(env))

\* mutant of Merged: the environment applied first, the file on top of it
Merged_FileLast(file, env) ==
    LET over == override_from_env(Defaults, env)
    IN [raised |-> over.raised, dict |-> update_nested_dict(over.dict, file)]

\* the dictionary _load_config hands to AppConfig: the defaults, updated from
\* the file, overridden from the environment
Merged(file, env) ==
    override_from_env(update_nested_dict(Defaults, file), env)

\* pydantic's validation of one value against the annotation of its field
Coerce(type, value) ==
    IF type = value.t THEN [ok |-> TRUE, v |-> value]
    ELSE IF type = "int" /\ value.t = "str"
    THEN [ok |-> ParseInt(value.s).ok, v |-> IntV(ParseInt(value.s).n)]
    ELSE IF type = "bool" /\ value.t = "str"
    THEN [ok |-> lower(value.s) \in {<<"t", "r", "u", "e">>, <<"y", "e", "s">>, <<"1">>, <<"o", "n">>, <<"f", "a", "l", "s", "e">>, <<"n", "o">>, <<"0">>, <<"o", "f", "f">>},
          v |-> BoolV(lower(value.s) \in {<<"t", "r", "u", "e">>, <<"y", "e", "s">>, <<"1">>, <<"o", "n">>})]
    ELSE IF type = "bool" /\ value.t = "int"
    THEN [ok |-> value.n \in {0, 1}, v |-> BoolV(value.n = 1)]
    ELSE [ok |-> FALSE, v |-> value]

\* AppConfig(**config_dict) accepts the dictionary: each field that is given
\* can be coerced to its annotation, and no field or section has been
\* replaced by a value of another shape; keys no model declares are ignored
Valid(d) ==
    \A f \in Fields :
        IF f \in DOMAIN d THEN Coerce(FieldType[f], d[f]).ok
        ELSE \A q \in DOMAIN d : ~Conflicts(q, f)

\* the AppConfig built from a dictionary that validates
Validated(d) ==
    [f \in Fields |->
        IF f \in DOMAIN d THEN Coerce(FieldType[f], d[f]).v ELSE Defaults[f]]

\* what get_config finds: no file named and no config/default.json ("none"),
\* config/default.json ("default"), the file named ("given"), a file named
\* that does not exist ("missing"), or one json.load cannot read ("corrupt")
ConfigFiles == {"none", "default", "given", "missing", "corrupt"}

\* contents of configuration files
FileConfigs ==
    { <<>>,
      [f \in {Timeout} |-> IntV(20)],
      [f \in {Timeout} |-> StrV(<<"a", "b", "c">>)],
      [f \in {OutputDir, UseSimulator} |->
          IF f = OutputDir THEN StrV(<<"/", "o", "u", "t">>) ELSE BoolV(FALSE)],
      [f \in {<<<<"c", "o", "n", "t", "r", "o", "l", "l", "e", "r">>>>} |-> IntV(5)] }

\* variables of the environment
EnvChoices ==
    { [name |-> <<"H", "M", "P", "_", "C", "O", "N", "T", "R", "O", "L", "L", "E", "R", "_", "T", "I", "M", "E", "O", "U", "T">>, value |-> <<"3", "0">>],
      [name |-> <<"H", "M", "P", "_", "C", "O", "N", "T", "R", "O", "L", "L", "E", "R", "_", "T", "I", "M", "E", "O", "U", "T">>, value |-> <<"a", "b", "c">>],
      [name |-> <<"H", "M", "P", "_", "P", "A", "T", "H", "S", "_", "O", "U", "T", "P", "U", "T", "_", "D", "I", "R">>, value |-> <<"/", "x">>],
      [name |-> <<"H", "M", "P", "_", "S", "I", "M", "U", "L", "A", "T", "O", "R", "_", "U", "S", "E", "_", "S", "I", "M", "U", "L", "A", "T", "O", "R">>, value |-> <<"F", "a", "l", "s", "e">>],
      [name |-> <<"H", "M", "P", "_", "S", "K", "I", "P", "_", "A", "R", "C", "H", "I", "V", "I", "N", "G">>, value |-> <<"y", "e", "s">>],
      [name |-> <<"H", "M", "P", "_", "C", "O", "N", "T", "R", "O", "L", "L", "E", "R", "_", "T", "I", "M", "E", "O", "U", "T", "_", "M", "S">>, value |-> <<"5">>],
      [name |-> <<"H", "M", "P", "_", "D", "E", "B", "U", "G">>, value |-> <<"1">>],
      [name |-> <<"P", "A", "T", "H">>, value |-> <<"/", "b", "i", "n">>] }

Environments ==
    {env \in UNION {[1..n -> EnvChoices] : n \in 0..MaxEnv} :
        \A i, j \in 1..Len(env) : env[i].name = env[j].name => i = j}

\* the first get_config() of the process: ConfigManager(config_file,
\* env_prefix) and its _load_config()
load_config ==
    /\ config_file \in ConfigFiles
    /\ DOMAIN app_config = {}
    /\ load_exc = "none"
    /\ LET read == config_file \in {"default", "given"}
           merged == Merged(IF read THEN file_config ELSE <<>>, environ)
           lg == IF read THEN logged
                 ELSE Append(logged, Warning("configuration file not loaded"))
       IN IF merged.raised
          THEN /\ load_exc' = "TypeError"
               /\ logged' = lg
               /\ UNCHANGED app_config
          ELSE IF Valid(merged.dict)
          THEN /\ app_config' = Validated(merged.dict)
               /\ logged' = lg
               /\ UNCHANGED load_exc
          ELSE /\ app_config' = Defaults
               /\ logged' = Append(lg, Error("Configuration validation failed"))
               /\ UNCHANGED load_exc
    /\ UNCHANGED <<config_file, file_config, environ>>
    /\ UNCHANGED <<scanVars, registry, hookLists, pc, entry, si, hi, ci, gi,
                   results, groups, exc, ret, log, selVars, catVars, mainVars,
                   caseVars, archiveVars, ingestVars>>

\* a process about to make its first get_config()
InitLoader ==
    /\ universe = {}
    /\ pc = "none"
    /\ PipelineStart
    /\ IngestAbsent
    /\ MainAbsent
    /\ CaseAbsent
    /\ ArchiveAbsent
    /\ config_file \in ConfigFiles
    /\ file_config \in FileConfigs
    /\ config_file \notin {"default", "given"} => file_config = <<>>
    /\ environ \in Environments
    /\ app_config = <<>>
    /\ load_exc = "none"

NextLoader == load_config

SpecLoader == InitLoader /\ [][NextLoader]_vars

\* -------------------------------- ingestion service (visualization/ingestion.py)
\* The watchdog observer calls the handler from its own thread while the main
\* thread runs scan_existing_files every POLL_INTERVAL.  Both threads use the
\* module globals processed_files and db_connection.  A psycopg2 connection may
\* be shared by threads; its transaction belongs to the connection, not to the
\* cursor: COMMIT and ROLLBACK act on every row written through it since the
\* last commit, and any call on a closed connection raises.
MaxScans == 2
MaxConnections == 2
MaxAttempts == 3

\* paths of results_*.zip files that can appear in DATA_DIR
Files == {"results_a.zip", "results_b.zip"}

Threads == {"observer", "main"}

\* a thread outside process_test_results_file
Resting(t) == [pc |-> IF t = "main" THEN "scan" ELSE "idle",
               file |-> "", conn |-> 0, attempt |-> 0, todo |-> thr[t].todo]

\* a row written by an attempt to process a file
Row(t, table) == [file |-> thr[t].file, table |-> table, attempt |-> thr[t].attempt]

\* a writer puts a results file into DATA_DIR, by creating it or by moving it
\* there: the observer is notified
FileArrives(f, kind) ==
    /\ thr # <<>>
    /\ f \in Files \ watched
    /\ watched' = watched \cup {f}
    /\ events' = Append(events, [kind |-> kind, path |-> f])
    /\ UNCHANGED <<processed_files, db_connection, nconn, closed, uncommitted,
                   committed, thr, scans, attempts>>
    /\ UNCHANGED <<scanVars, registry, hookLists, pc, callState, selVars, catVars,
                   mainVars, caseVars, archiveVars, loaderVars>>

\* `if file_path not in processed_files:` followed by the call of
\* process_test_results_file, which starts with the file
Check(t, f, else_todo) ==
    IF f \notin processed_files
    THEN /\ Len(attempts) < MaxAttempts
         /\ thr' = [thr EXCEPT ![t] = [pc |-> "open", file |-> f, conn |-> 0,
                                       attempt |-> Len(attempts) + 1,
                                       todo |-> else_todo]]
         /\ attempts' = Append(attempts, [file |-> f, thread |-> t, result |-> "running"])
    ELSE /\ thr' = [thr EXCEPT ![t].todo = else_todo]
         /\ UNCHANGED attempts

\* the observer thread takes the next event to its handler
Dispatch(kind) ==
    /\ thr # <<>>
    /\ thr["observer"].pc = "idle"
    /\ events # <<>>
    /\ Head(events).kind = kind
    /\ events' = Tail(events)
    /\ Check("observer", Head(events).path, <<>>)
    /\ UNCHANGED <<watched, processed_files, db_connection, nconn, closed,
                   uncommitted, committed, scans>>
    /\ UNCHANGED <<scanVars, registry, hookLists, pc, callState, selVars, catVars,
                   mainVars, caseVars, archiveVars, loaderVars>>

\* TestResultsHandler.on_created for a results zip file
on_created ==
    /\ events # <<>>
    /\ Dispatch("created")

\* TestResultsHandler.on_moved for a results zip file moved into DATA_DIR: the
\* source path is not in processed_files
on_moved ==
    /\ events # <<>>
    /\ Dispatch("moved")

\* scan_existing_files: the listing of DATA_DIR, in the order glob yields it
scan_existing_files ==
    /\ thr # <<>>
    /\ thr["main"].pc = "idle"
    /\ scans < MaxScans
    /\ scans' = scans + 1
    /\ \E o \in Orders(watched) :
          thr' = [thr EXCEPT !["main"].pc = "scan", !["main"].todo = o]
    /\ UNCHANGED <<watched, events, processed_files, db_connection, nconn, closed,
                   uncommitted, committed, attempts>>
    /\ UNCHANGED <<scanVars, registry, hookLists, pc, callState, selVars, catVars,
                   mainVars, caseVars, archiveVars, loaderVars>>

\* scan_existing_files: one iteration of `for file_path in zip_files`, or the
\* end of the loop and time.sleep(POLL_INTERVAL)
ScanNext ==
    /\ thr # <<>>
    /\ thr["main"].pc = "scan"
    /\ IF thr["main"].todo = <<>>
       THEN /\ thr' = [thr EXCEPT !["main"].pc = "idle"]
            /\ UNCHANGED attempts
       ELSE Check("main", Head(thr["main"].todo), Tail(thr["main"].todo))
    /\ UNCHANGED <<watched, events, processed_files, db_connection, nconn, closed,
                   uncommitted, committed, scans>>
    /\ UNCHANGED <<scanVars, registry, hookLists, pc, callState, selVars, catVars,
                   mainVars, caseVars, archiveVars, loaderVars>>

\* process_test_results_file returns False
ReturnFalse(t) ==
    /\ thr' = [thr EXCEPT ![t] = Resting(t)]
    /\ attempts' = [attempts EXCEPT ![thr[t].attempt].result = "failed"]

\* an exception inside the inner try: `except` executes ROLLBACK (which raises
\* on a closed connection), `finally` closes cursor and connection, and the
\* function returns False
Rollback(t) ==
    /\ uncommitted' = IF thr[t].conn \in closed THEN uncommitted
                      ELSE [uncommitted EXCEPT ![thr[t].conn] = <<>>]
    /\ closed' = closed \cup {thr[t].conn}
    /\ ReturnFalse(t)
    /\ UNCHANGED committed

\* process_test_results_file: the zip file is opened and results.json read
open_zip(t) ==
    /\ thr # <<>>
    /\ thr[t].pc = "open"
    /\ \E readable \in BOOLEAN :
          IF readable
          THEN /\ thr' = [thr EXCEPT ![t].pc = "connect"]
               /\ UNCHANGED attempts
          ELSE ReturnFalse(t)
    /\ UNCHANGED <<watched, events, processed_files, db_connection, nconn, closed,
                   uncommitted, committed, scans>>
    /\ UNCHANGED <<scanVars, registry, hookLists, pc, callState, selVars, catVars,
                   mainVars, caseVars, archiveVars, loaderVars>>

\* get_db_connection: the global connection when it is open, else a new one,
\* or None when the database cannot be reached
get_db_connection(t) ==
    /\ thr # <<>>
    /\ thr[t].pc = "connect"
    /\ IF db_connection # 0 /\ db_connection \notin closed
       THEN /\ thr' = [thr EXCEPT ![t].pc = "begin", ![t].conn = db_connection]
            /\ UNCHANGED <<db_connection, nconn, attempts>>
       ELSE \E reached \in BOOLEAN :
              IF reached /\ nconn < MaxConnections
              THEN /\ nconn' = nconn + 1
                   /\ db_connection' = nconn + 1
                   /\ thr' = [thr EXCEPT ![t].pc = "begin", ![t].conn = nconn + 1]
                   /\ UNCHANGED attempts
              ELSE /\ ReturnFalse(t)
                   /\ UNCHANGED <<db_connection, nconn>>
    /\ UNCHANGED <<watched, events, processed_files, closed, uncommitted,
                   committed, scans>>
    /\ UNCHANGED <<scanVars, registry, hookLists, pc, callState, selVars, catVars,
                   mainVars, caseVars, archiveVars, loaderVars>>

\* a statement that writes one row through the connection of the thread
Insert(t, table, then) ==
    /\ thr # <<>>
    /\ \E ok \in BOOLEAN :
          IF ok /\ thr[t].conn \notin closed
          THEN /\ uncommitted' = [uncommitted EXCEPT ![thr[t].conn] =
                                     Append(@, Row(t, table))]
               /\ thr' = [thr EXCEPT ![t].pc = then]
               /\ UNCHANGED <<closed, committed, attempts>>
          ELSE Rollback(t)
    /\ UNCHANGED <<watched, events, processed_files, db_connection, nconn, scans>>
    /\ UNCHANGED <<scanVars, registry, hookLists, pc, callState, selVars, catVars,
                   mainVars, caseVars, archiveVars, loaderVars>>

\* BEGIN and INSERT INTO test_runs
insert_test_run(t) ==
    /\ thr # <<>>
    /\ thr[t].pc = "begin"
    /\ Insert(t, "test_runs", "groups")

\* process_test_group for the groups of the document: test_groups, test_cases
\* and the rows below them
process_test_group(t) ==
    /\ thr # <<>>
    /\ thr[t].pc = "groups"
    /\ Insert(t, "test_cases", "commit")

\* COMMIT, `finally: cursor.close(); conn.close()`, return True
commit(t) ==
    /\ thr # <<>>
    /\ thr[t].pc = "commit"
    /\ IF thr[t].conn \in closed
       THEN Rollback(t)
       ELSE /\ committed' = committed \o uncommitted[thr[t].conn]
            /\ uncommitted' = [uncommitted EXCEPT ![thr[t].conn] = <<>>]
            /\ closed' = closed \cup {thr[t].conn}
            /\ thr' = [thr EXCEPT ![t].pc = "add"]
            /\ attempts' = [attempts EXCEPT ![thr[t].attempt].result = "committed"]
    /\ UNCHANGED <<watched, events, processed_files, db_connection, nconn, scans>>
    /\ UNCHANGED <<scanVars, registry, hookLists, pc, callState, selVars, catVars,
                   mainVars, caseVars, archiveVars, loaderVars>>

\* processed_files.add(file_path) after process_test_results_file returned True
add_processed(t) ==
    /\ thr # <<>>
    /\ thr[t].pc = "add"
    /\ processed_files' = processed_files \cup {thr[t].file}
    /\ thr' = [thr EXCEPT ![t] = Resting(t)]
    /\ UNCHANGED <<watched, events, db_connection, nconn, closed, uncommitted,
                   committed, scans, attempts>>
    /\ UNCHANGED <<scanVars, registry, hookLists, pc, callState, selVars, catVars,
                   mainVars, caseVars, archiveVars, loaderVars>>

\* main() up to its first scan: DATA_DIR may hold files already; the initial
\* get_db_connection() has connected or has given up
InitIngest ==
    /\ universe = {}
    /\ pc = "none"
    /\ PipelineStart
    /\ ArchiveAbsent
    /\ LoaderAbsent
    /\ MainAbsent
    /\ CaseAbsent
    /\ watched \in SUBSET Files
    /\ events = <<>>
    /\ processed_files = {}
    /\ nconn \in {0, 1}
    /\ db_connection = nconn
    /\ closed = {}
    /\ uncommitted = [c \in 1..MaxConnections |-> <<>>]
    /\ committed = <<>>
    /\ thr = [t \in Threads |->
                [pc |-> "idle", file |-> "", conn |-> 0, attempt |-> 0, todo |-> <<>>]]
    /\ scans = 0
    /\ attempts = <<>>

NextIngest ==
    \/ \E f \in Files, kind \in {"created", "moved"} : FileArrives(f, kind)
    \/ on_created
    \/ on_moved
    \/ scan_existing_files
    \/ ScanNext
    \/ \E t \in Threads : open_zip(t)
    \/ \E t \in Threads : get_db_connection(t)
    \/ \E t \in Threads : insert_test_run(t)
    \/ \E t \in Threads : process_test_group(t)
    \/ \E t \in Threads : commit(t)
    \/ \E t \in Threads : add_processed(t)

SpecIngest == InitIngest /\ [][NextIngest]_vars

\* ------------------------------------------------------ reading the ghost log
\* positions of the log entries of one kind recorded for one suite
Positions(kind, name) ==
    {p \in 1..Len(log) : log[p].kind = kind /\ log[p].suite = name}

RECURSIVE HooksRunFrom(_, _, _)
HooksRunFrom(p, kind, name) ==
    IF p > Len(log) THEN <<>>
    ELSE IF log[p].kind = kind /\ log[p].suite = name
         THEN <<log[p].idx>> \o HooksRunFrom(p + 1, kind, name)
         ELSE HooksRunFrom(p + 1, kind, name)

\* the hooks (or case indexes) of one kind executed for one suite, in order
HooksRun(kind, name) == HooksRunFrom(1, kind, name)

RECURSIVE OutcomesFrom(_, _, _)
OutcomesFrom(p, kind, name) ==
    IF p > Len(log) THEN <<>>
    ELSE IF log[p].kind = kind /\ log[p].suite = name
         THEN <<log[p].outcome>> \o OutcomesFrom(p + 1, kind, name)
         ELSE OutcomesFrom(p + 1, kind, name)

Raised(kind, name) ==
    {log[p].idx : p \in {q \in Positions(kind, name) : log[q].outcome = "raise"}}

SuiteKinds == {"run_setup_hooks", "setup", "run", "run_teardown_hooks", "teardown"}

RECURSIVE FirstSeen(_, _)
\* suite names in the order in which the scan first referred to them
FirstSeen(order, seen) ==
    IF order = <<>> THEN <<>>
    ELSE LET name == DiscoveredSuite(Head(order))
         IN IF name \in seen THEN FirstSeen(Tail(order), seen)
            ELSE <<name>> \o FirstSeen(Tail(order), seen \cup {name})

\* ------------------------------------------------------------------ claims

\* C1: for every invocation of run_suite, all teardown hooks of the suite
\* execute exactly once, in registration order, on every exit path (normal
\* completion, a setup hook raising, a test case raising): when run_suite is
\* left, the teardown hooks executed are exactly the registered list.
C1_AllTeardownHooksRun ==
    pc = "s_exit" =>
        HooksRun("teardown", test_suites[si].name) = test_suites[si].teardown_hooks

\* C2: a teardown hook that raises does not short-circuit teardown: when the
\* suite's (or the global) teardown is left, every hook registered after a hook
\* that raised has been executed too.
C2_TeardownNotShortCircuited ==
    /\ pc = "s_exit" =>
         \A j \in Raised("teardown", test_suites[si].name) :
            \A k \in Range(test_suites[si].teardown_hooks) :
               k > j => k \in Range(HooksRun("teardown", test_suites[si].name))
    /\ pc = "g_exit" =>
         \A j \in Raised("global_teardown", "") :
            \A k \in Range(global_teardown_hooks) :
               k > j => k \in Range(HooksRun("global_teardown", ""))

\* C3: run() of every shipped test case always returns a result (PASS or
\* FAIL) and lets no exception escape, whatever the controller does and
\* whatever the configuration lookups do.
C3_RunAlwaysReturns ==
    run_result # NotRun =>
        /\ run_result.raised = "none"
        /\ run_result.result \in {"PASS", "FAIL"}

\* causes of failure that lie outside the test cases, hooks and selection:
\* the controller, the simulator, and the artifact files of the archive
EnvCauses == {"controller", "simulator", "archive"}

RECURSIVE ReportedCases(_)
\* the test case results a result document carries, group after group
ReportedCases(gs) ==
    IF gs = <<>> THEN <<>>
    ELSE Head(gs).groupItems \o ReportedCases(Tail(gs))

\* C4: every execution of main, whatever the test cases, hooks and selection
\* do, ends with the result document written (results file or archive), and
\* the document carries a PASS or FAIL for every test case that was started.
C4_ReportAlwaysExists ==
    (mpc \in {"m_done", "m_raised"} /\ mexc.cause \notin EnvCauses) =>
        /\ report.written
        /\ Len(ReportedCases(report.groups)) =
              Cardinality({p \in 1..Len(log) : log[p].kind = "run"})
        /\ \A k \in 1..Len(ReportedCases(report.groups)) :
              ReportedCases(report.groups)[k].result \in {"PASS", "FAIL"}

\* C5: an exception raised by a suite setup or teardown hook never propagates
\* out of run_all: run_all is never left with such an exception in flight.
C5_HookFailureNotPropagated ==
    (entry = "run_all" /\ pc = "raised") => exc.kind \notin {"setup", "teardown"}

\* C6: when setup hook k of a suite raises during run_suite, no later setup
\* hook and no test case of that suite is executed, and the suite's teardown is
\* still invoked (once; its first hook, if any, has run when run_suite is left).
C6_SetupFailureSkipsCases ==
    \A p \in 1..Len(log) :
        (log[p].kind = "setup" /\ log[p].outcome = "raise") =>
            LET name == log[p].suite
            IN /\ \A q \in 1..Len(log) :
                    (q > p /\ log[q].suite = name) => log[q].kind \notin {"setup", "run"}
               /\ Positions("run", name) = {}
               /\ Cardinality(Positions("run_teardown_hooks", name)) = 1
               /\ \A q \in Positions("run_teardown_hooks", name) : q > p
               /\ (pc = "s_exit" /\ test_suites[si].name = name
                      /\ test_suites[si].teardown_hooks # <<>>) =>
                     /\ HooksRun("teardown", name) # <<>>
                     /\ IsPrefix(HooksRun("teardown", name), test_suites[si].teardown_hooks)

\* C6 witness: run_suite is left after the first of two setup hooks raised, in
\* a suite that has a test case: the second hook and the case did not run, and
\* run_teardown_hooks was called.
C6_Witness ==
    /\ pc = "s_exit"
    /\ exc = Exc("setup", test_suites[si].name, 1)
    /\ Len(test_suites[si].setup_hooks) = 2
    /\ test_suites[si].test_cases # <<>>
    /\ HooksRun("setup", test_suites[si].name) = <<1>>
    /\ Positions("run", test_suites[si].name) = {}
    /\ Cardinality(Positions("run_teardown_hooks", test_suites[si].name)) = 1

\* the part of run_all an executed step belongs to: the global setup pass, the
\* suites, the start of the global teardown pass, its hooks
Phase(kind) ==
    IF kind \in {"global_setup_loop", "global_setup"} THEN 1
    ELSE IF kind \in SuiteKinds THEN 2
    ELSE IF kind = "global_teardown_loop" THEN 3
    ELSE 4

\* C7: run_all makes exactly one pass over the global setup hooks before any
\* suite hook or test case runs, and exactly one pass over the global teardown
\* hooks after the last suite activity; the teardown pass is made on every exit
\* path.  A pass calls the hooks in list order, each at most once.
C7_GlobalHooksOnce ==
    entry = "run_all" =>
        /\ Cardinality(Positions("global_setup_loop", "")) = 1
        /\ IsPrefix(HooksRun("global_setup", ""), global_setup_hooks)
        /\ IsPrefix(HooksRun("global_teardown", ""), global_teardown_hooks)
        /\ Cardinality(Positions("global_teardown_loop", "")) <= 1
        /\ \A p \in 1..(Len(log) - 1) : Phase(log[p].kind) <= Phase(log[p + 1].kind)
        /\ pc \in {"g_exit", "done", "raised"} =>
              Cardinality(Positions("global_teardown_loop", "")) = 1
        /\ (pc \in {"g_exit", "done", "raised"}
              /\ Raised("global_teardown", "") = {}) =>
              HooksRun("global_teardown", "") = global_teardown_hooks
        /\ (pc \in {"g_suites", "s_setup", "s_cases", "s_teardown", "s_exit"}) =>
              HooksRun("global_setup", "") = global_setup_hooks

\* C7 witness: run_all is left with the exception of a test case, and the
\* global teardown hook has run after a global setup hook and the suite.
C7_Witness ==
    /\ entry = "run_all" /\ pc = "raised" /\ exc.kind = "case"
    /\ HooksRun("global_setup", "") = <<1>>
    /\ HooksRun("global_teardown", "") = <<1>>

\* C8: an exception that escapes a test case's run() leaves run_suite and run_all
\* as that same exception, and no TestGroup is returned.
C8_CaseExceptionPropagatesUnmodified ==
    (pc = "raised" /\ \E p \in 1..Len(log) : log[p].kind = "run" /\ log[p].outcome = "RAISE") =>
        /\ exc.kind = "case"
        /\ \E p \in 1..Len(log) :
              /\ log[p].kind = "run" /\ log[p].outcome = "RAISE"
              /\ exc = Exc("case", log[p].suite, log[p].idx)
        /\ ret = <<>>

\* the TestGroup run_test_suite builds for a suite that completed normally:
\* named after the suite, one result per class in declared order, each result
\* the one that class's run() returned
GroupMatchesSuite(g, suite) ==
    /\ g.name = suite.name
    /\ Len(g.groupItems) = Len(suite.test_cases)
    /\ \A i \in 1..Len(suite.test_cases) :
          /\ g.groupItems[i].cls = suite.test_cases[i]
          /\ g.groupItems[i].result = OutcomesFrom(1, "run", suite.name)[i]
    /\ HooksRun("run", suite.name) = [i \in 1..Len(suite.test_cases) |-> i]

\* C9: on normal completion run_suite returns exactly one TestGroup, named
\* after the suite, whose groupItems hold exactly one result per test case type
\* of the suite in declared order; a FAIL result does not stop later cases.
C9_SuiteGroupInDeclaredOrder ==
    /\ (entry = "run_suite" /\ pc = "done") =>
          /\ Len(ret) = 1
          /\ GroupMatchesSuite(ret[1], test_suites[si])
    /\ (entry = "run_all" /\ pc = "g_suites") =>
          \A k \in 1..Len(groups) :
             \E s \in 1..Len(test_suites) :
                /\ test_suites[s].name = groups[k].name
                /\ GroupMatchesSuite(groups[k], test_suites[s])

\* C9 witness: run_suite returned a group of two results, FAIL then PASS.
C9_Witness ==
    /\ entry = "run_suite" /\ pc = "done"
    /\ Len(ret[1].groupItems) = 2
    /\ ret[1].groupItems[1].result = "FAIL"
    /\ ret[1].groupItems[2].result = "PASS"

\* C10: on normal completion run_all returns exactly one TestGroup per suite of
\* the registry, in the order in which discovery first created the suites.
C10_GroupsInRegistryOrder ==
    (entry = "run_all" /\ pc = "done") =>
        /\ Len(ret) = Len(test_suites)
        /\ [k \in 1..Len(ret) |-> ret[k].name] = FirstSeen(scan_order, {})

\* C10 witness: run_all returned the groups of two suites.
C10_Witness ==
    /\ entry = "run_all" /\ pc = "done"
    /\ Len(ret) = 2
    /\ ret[1].name # ret[2].name

\* ------------------------------------------------ selection by id and category
\* the classes a list of ids resolves to, in the order of the list
RECURSIVE Resolved(_)

Resolved(l) ==
    IF l = <<>> THEN <<>>
    ELSE (IF Head(l) \in DOMAIN test_cases THEN <<test_cases[Head(l)]>> ELSE <<>>)
         \o Resolved(Tail(l))

\* rank of a class in the insertion order of the registry
ScanRank(cls) == CHOOSE p \in 1..Len(scan_order) : scan_order[p] = cls

\* C11: the group run_selected returns holds one result per requested id that
\* resolves, in the order of the requested list, whatever order the registry
\* was filled in.
C11_SelectedInRequestedOrder ==
    (entry = "run_selected" /\ pc = "done") =>
        LET items == ret[1].groupItems
            wanted == Resolved(ids.val)
        IN /\ Len(items) = Len(wanted)
           /\ \A k \in 1..Len(items) : items[k].cls = wanted[k]

\* two ids were requested in the reverse of the order the registry holds them
C11_Witness ==
    /\ entry = "run_selected" /\ pc = "done"
    /\ Len(ret[1].groupItems) = 2
    /\ ret[1].groupItems[1].cls # ret[1].groupItems[2].cls
    /\ ScanRank(ret[1].groupItems[1].cls) > ScanRank(ret[1].groupItems[2].cls)

\* positions among the first n requested ids that no class is registered under
Misses(n) == {k \in 1..n : ids.val[k] \notin DOMAIN test_cases}

\* "not found" warnings written so far
NotFoundWarnings ==
    {p \in 1..Len(logged) : logged[p] = Warning("test case not found")}

\* C12: in run_selected every requested id without a match costs exactly one
\* logged warning and nothing else: the call raises only out of a test case
\* that was found and run, every id that resolves is run, and the returned
\* group has one item per resolved id (none when no id resolves).
C12_MissIsWarnedAndSkipped ==
    (entry = "run_selected" /\ ~ ids.none) =>
        LET done == ci - 1     \* ids whose iteration has completed
            hits == (1..done) \ Misses(done)
        IN /\ Cardinality(NotFoundWarnings) = Cardinality(Misses(done))
           /\ Len(results) = Cardinality(hits)
           /\ pc = "raised" =>
                 /\ exc.kind = "case"
                 /\ ids.val[ci] \in DOMAIN test_cases
                 /\ log[Len(log)] = Event("run", "Selected Test Cases", ci, "RAISE")
           /\ pc = "done" =>
                 /\ ret[1].groupItems = results
                 /\ (Misses(Len(ids.val)) = 1..Len(ids.val) => ret[1].groupItems = <<>>)

\* a request whose first id has no match and whose second id was found and run
C12_Witness ==
    /\ entry = "run_selected" /\ pc = "done"
    /\ Len(ids.val) = 2
    /\ Misses(2) = {1}
    /\ Len(ret[1].groupItems) = 1
    /\ Cardinality(NotFoundWarnings) = 1

\* C13: a requested category that does not resolve is logged as a warning and
\* yields an empty TestGroup, without aborting the run.
C13_UnknownCategoryWarned ==
    (entry = "run_by_category" /\ category \notin DOMAIN categories) =>
        /\ pc # "raised"
        /\ pc = "done" =>
              /\ ret[1].groupItems = <<>>
              /\ \E p \in 1..Len(logged) : logged[p].level = "WARNING"

\* ------------------------------------------------------------ group number
\* the part of a number before its first '.', the whole number when it has none
LeadingSegment(num) ==
    LET dots == {k \in 1..Len(num) : num[k] = "."}
    IN IF dots = {} THEN num
       ELSE SubSeq(num, 1, (CHOOSE k \in dots : \A j \in dots : k <= j) - 1)

\* C14: the TestGroup returned by run_suite, run_by_category and run_selected
\* carries as number the leading dotted segment of its first test case's id,
\* character for character, and "0" when it holds no test case or the id of
\* the first one cannot be obtained (then a warning is logged); the only
\* exceptions that leave these calls come from running a test case or from
\* the argument, never from deriving the number.
C14_GroupNumberIsLeadingSegment ==
    (entry \in {"run_suite", "run_by_category", "run_selected"}) =>
        /\ pc = "raised" => exc.kind \in {"case", "TypeError"}
        /\ pc = "done" =>
              LET g == ret[1]
                  warned == \E p \in 1..Len(logged) :
                               logged[p] = Warning("temporary instance failed")
              IN IF g.groupItems = <<>>
                 THEN g.number = <<"0">> /\ ~ warned
                 ELSE IF Classes[g.groupItems[1].cls].ctor_none = "raise"
                 THEN g.number = <<"0">> /\ warned
                 ELSE g.number = LeadingSegment(g.groupItems[1].number) /\ ~ warned

\* a suite was run whose cases have the ids "004" and "004.2", in that order
C14_Witness ==
    /\ entry = "run_suite" /\ pc = "done"
    /\ Len(ret[1].groupItems) = 2
    /\ ret[1].groupItems[1].number = <<"0","0","4">>
    /\ ret[1].groupItems[2].number = <<"0","0","4",".","2">>
    /\ ret[1].number = <<"0","0","4">>

\* a returned group whose first test case has the id "004.2"
FirstCaseIs0042 ==
    /\ pc = "done"
    /\ entry \in {"run_suite", "run_by_category", "run_selected"}
    /\ ret[1].groupItems # <<>>
    /\ ret[1].groupItems[1].number = <<"0","0","4",".","2">>

\* C15 (as stated): a TestGroup whose first test case has the id "004.2" gets
\* the group number "4".
C15_GroupNumberIs4 ==
    FirstCaseIs0042 => ret[1].number = <<"4">>

\* C15 (amended): a TestGroup whose first test case has the id "004.2" gets
\* the group number "004": the leading segment keeps its leading zeros.
C15_GroupNumberIs004 ==
    FirstCaseIs0042 => ret[1].number = <<"0","0","4">>

\* run_selected returned a group whose first case is "004.2"
C15_Witness ==
    /\ FirstCaseIs0042
    /\ entry = "run_selected"
    /\ ret[1].number = <<"0","0","4">>

\* ------------------------------------------------- metrics of a failed run()
\* what the k-th HTTP exchange of the run raises into run()
Thrown(k) ==
    IF tc = "TestCase_004" /\ k = 1 THEN put_request(beh.calls[k]).raise
    ELSE fetch_data(beh.calls[k]).raise

\* the first exchange of the run that raised, 0 when none did
FirstRaising ==
    LET ks == {k \in 1..Len(beh.calls) : Thrown(k) # "none"}
    IN IF ks = {} THEN 0 ELSE CHOOSE k \in ks : \A j \in ks : k <= j

\* the exchange that raised was a call of the controller (not the PUT that
\* TestCase_004 sends itself)
ControllerCallRaised ==
    FirstRaising # 0 /\ ~ (tc = "TestCase_004" /\ FirstRaising = 1)

\* C16: when a network call of the controller times out during run(), the
\* result is FAIL with the 'timeout' metric; when the call fails in any other
\* way the result is FAIL with the 'generic error' metric.
C16_TimeoutGivesTimeoutMetric ==
    (tc \in {"TestCase_002", "TestCase_004"} /\ run_result # NotRun
        /\ ControllerCallRaised) =>
        /\ run_result.raised = "none"
        /\ run_result.result = "FAIL"
        /\ run_result.metrics =
              <<IF beh.calls[FirstRaising].raise \in Timeouts
                THEN "timeout" ELSE "generic error">>

RegistrationsOf(id) ==
    {p \in 1..Len(scan_order) : DiscoveredId(scan_order[p]) = id}

\* the last class registered under an id
LastRegistered(id) ==
    scan_order[CHOOSE p \in RegistrationsOf(id) :
                   \A q \in RegistrationsOf(id) : q <= p]

\* registrations that replaced another class under the same id
Collisions ==
    {p \in 1..Len(scan_order) :
        \E q \in 1..(p - 1) :
            /\ DiscoveredId(scan_order[q]) = DiscoveredId(scan_order[p])
            /\ scan_order[q] # scan_order[p]
            /\ \A r \in (q + 1)..(p - 1) :
                  DiscoveredId(scan_order[r]) # DiscoveredId(scan_order[p])}

\* every id maps to the last class registered under it
LastRegistrationWins ==
    /\ DOMAIN test_cases = {DiscoveredId(c) : c \in Range(scan_order)}
    /\ \A id \in DOMAIN test_cases : test_cases[id] = LastRegistered(id)

\* C18: after discovery every id of the registry maps to the last class
\* registered under it, and every registration that replaced another class
\* under the same id was logged as a warning.
C18_CollisionIsWarned ==
    pc = "idle" =>
        /\ LastRegistrationWins
        /\ Cardinality({p \in 1..Len(logged) : logged[p].level = "WARNING"})
              = Cardinality(Collisions)

\* C19: discovery is failure-isolated: no failing unit makes the scan raise,
\* and when the scan is over every class of every unit that did import is
\* registered under its id and filed in its suite.
C19_DiscoveryFailureIsolated ==
    /\ pc # "raised"
    /\ pc = "idle" =>
          \A cls \in Range(scan_order) :
              /\ DiscoveredId(cls) \in DOMAIN test_cases
              /\ \E i \in 1..Len(test_suites) :
                    /\ test_suites[i].name = DiscoveredSuite(cls)
                    /\ cls \in Range(test_suites[i].test_cases)

\* the registry holds nothing but what the package of the latest pass defines
RegistryWithin(u) ==
    /\ \A id \in DOMAIN test_cases : test_cases[id] \in u
    /\ \A i \in 1..Len(test_suites) : Range(test_suites[i].test_cases) \subseteq u
    /\ \A c \in DOMAIN categories : \A id \in categories[c] :
          \E cls \in u : DiscoveredId(cls) = id /\ c \in Range(Classes[cls].categories)

\* C20: after a discovery pass has finished, the id map, the category map and
\* the suite map hold only entries found in the package of that pass; a second
\* pass leaves nothing of the first.
C20_RediscoveryReplacesRegistry ==
    pc = "idle" => RegistryWithin(universe)

\* the part of a name after its last '_', the whole name when it has none
TrailingSegment(name) ==
    LET bars == {k \in 1..Len(name) : name[k] = "_"}
    IN IF bars = {} THEN name
       ELSE SubSeq(name, (CHOOSE k \in bars : \A j \in bars : j <= k) + 1, Len(name))

\* the id a class declares, or the trailing segment of its module name
ExpectedId(cls) ==
    IF Classes[cls].number # NoAttr THEN Classes[cls].number
    ELSE TrailingSegment(Classes[cls].module)

\* C21: every class the scan registered sits in the id map under its declared
\* id attribute when it has one, and otherwise under the trailing
\* underscore-separated segment of its module name.
C21_IdFromAttributeOrModuleName ==
    /\ \A id \in DOMAIN test_cases : id = ExpectedId(test_cases[id])
    /\ \A cls \in Range(scan_order) : ExpectedId(cls) \in DOMAIN test_cases

\* the scan registered a class with a declared id and one without
C21_Witness ==
    /\ pc = "idle"
    /\ \E id \in DOMAIN test_cases :
          /\ Classes[test_cases[id]].number # NoAttr
          /\ id = <<"0","0","4",".","2">>
    /\ \E id \in DOMAIN test_cases :
          /\ Classes[test_cases[id]].number = NoAttr
          /\ id = <<"0","0","4">>

\* the suite a class declares, "Default" when it declares none
DeclaredSuite(cls) ==
    IF Classes[cls].has_suite THEN Classes[cls].suite ELSE "Default"

RECURSIVE FirstVisits(_, _, _)

\* the classes of one suite in the order in which the scan first visited them
FirstVisits(order, name, seen) ==
    IF order = <<>> THEN <<>>
    ELSE LET cls == Head(order)
         IN IF DeclaredSuite(cls) = name /\ cls \notin seen
            THEN <<cls>> \o FirstVisits(Tail(order), name, seen \cup {cls})
            ELSE FirstVisits(Tail(order), name, seen)

RECURSIVE FirstReferences(_, _)

\* the suite names in the order in which the scan first referred to them
FirstReferences(order, seen) ==
    IF order = <<>> THEN <<>>
    ELSE LET name == DeclaredSuite(Head(order))
         IN IF name \in seen THEN FirstReferences(Tail(order), seen)
            ELSE <<name>> \o FirstReferences(Tail(order), seen \cup {name})

AddCalls(name) ==
    LET RECURSIVE Calls(_)
        Calls(order) ==
            IF order = <<>> THEN <<>>
            ELSE IF DeclaredSuite(Head(order)) = name
                 THEN <<Head(order)>> \o Calls(Tail(order))
                 ELSE Calls(Tail(order))
    IN Calls(scan_order)

\* C25: after any sequence of add_test_case calls a suite's test-case list has
\* no duplicates and holds the added classes in the order of their first
\* insertion; adding a class that is already present leaves the list unchanged,
\* adding an absent one appends it.
C25_AddIsIdempotentAppend ==
    \A i \in 1..Len(test_suites) :
       LET l == test_suites[i].test_cases
           calls == AddCalls(test_suites[i].name)
       IN /\ \A p, q \in 1..Len(l) : l[p] = l[q] => p = q
          /\ Range(l) = Range(calls)
          /\ \A p, q \in 1..Len(l) :
                p < q =>
                   (CHOOSE k \in 1..Len(calls) :
                       calls[k] = l[p] /\ \A j \in 1..(k - 1) : calls[j] # l[p])
                   < (CHOOSE k \in 1..Len(calls) :
                       calls[k] = l[q] /\ \A j \in 1..(k - 1) : calls[j] # l[q])
          /\ \A cls \in ClassNames :
                add_test_case(test_suites[i], cls)
                   = IF cls \in Range(l) THEN test_suites[i]
                     ELSE [test_suites[i] EXCEPT !.test_cases = Append(l, cls)]

\* a second scan added both classes of a suite again: four calls, two entries
C25_Witness ==
    /\ pc = "idle"
    /\ passes = 2
    /\ \E i \in 1..Len(test_suites) :
          /\ Len(test_suites[i].test_cases) = 2
          /\ Len(AddCalls(test_suites[i].name)) = 4

\* the entries of the suite map: each suite's name and test-case list
SuiteEntries ==
    [i \in 1..Len(test_suites) |->
        <<test_suites[i].name, test_suites[i].test_cases>>]

\* C23: once discovery is over, no step of run_suite, run_all, run_selected or
\* run_by_category (nor of the lookups they make) adds, removes or replaces an
\* entry of the id map, the category map or the suite map, test-case lists
\* included, and none starts a scan again.
C23_RegistryReadOnlyAfterDiscovery ==
    [][pc # "discover" =>
          /\ test_cases' = test_cases
          /\ categories' = categories
          /\ SuiteEntries' = SuiteEntries
          /\ scanned' = scanned
          /\ scan_order' = scan_order
          /\ passes' = passes
          /\ pc' # "discover"]_vars

\* a call by category over a registry with a category of two ids has returned
C23_Witness ==
    /\ pc = "done"
    /\ entry = "run_by_category"
    /\ category \in DOMAIN categories
    /\ Cardinality(categories[category]) = 2
    /\ Len(results) = 2

\* the classes the category map resolves for a category through the id map
CategoryResolves(cat) ==
    IF cat \in DOMAIN categories
    THEN {test_cases[id] : id \in categories[cat] \cap DOMAIN test_cases}
    ELSE {}

\* the classes run so far, by the "run" events of the log
ClassesRun == [p \in 1..Len(log) |-> cat_cases[log[p].idx]]

\* C24: run_by_category runs the classes the category map resolves for the
\* category, each once and through run_case; it calls no suite hook, no global
\* hook and neither hook runner; on return it hands back one TestGroup named for
\* the category with one result per resolved class.
C24_CategoryRunsResolvedCasesOnly ==
    entry = "run_by_category" =>
        /\ \A p \in 1..Len(log) :
              /\ log[p].kind = "run"
              /\ log[p].suite = CategoryGroupName(category)
              /\ log[p].idx = p
        /\ Range(ClassesRun) \subseteq CategoryResolves(category)
        /\ \A p, q \in 1..Len(log) : ClassesRun[p] = ClassesRun[q] => p = q
        /\ pc = "done" =>
              /\ Range(ClassesRun) = CategoryResolves(category)
              /\ Len(ret) = 1
              /\ ret[1].name = CategoryGroupName(category)
              /\ Len(ret[1].groupItems) = Len(log)
              /\ \A i \in 1..Len(log) :
                    /\ ret[1].groupItems[i].cls = ClassesRun[i]
                    /\ ret[1].groupItems[i].result = log[i].outcome

\* a category of two classes ran to its return although their suite holds a
\* setup hook and the pipeline a global hook
C24_Witness ==
    /\ entry = "run_by_category" /\ pc = "done"
    /\ Len(ret[1].groupItems) = 2
    /\ global_setup_hooks # <<>>
    /\ \E i \in 1..Len(test_suites) :
          /\ test_suites[i].setup_hooks # <<>>
          /\ ret[1].groupItems[1].cls \in Range(test_suites[i].test_cases)

\* the hooks of the list a hook event belongs to, as registered
RegisteredFor(ev) ==
    IF ev.kind = "global_setup" THEN global_setup_hooks
    ELSE IF ev.kind = "global_teardown" THEN global_teardown_hooks
    ELSE IF ev.kind = "setup" THEN test_suites[SuiteIndex(ev.suite)].setup_hooks
    ELSE test_suites[SuiteIndex(ev.suite)].teardown_hooks

\* C26: the setup hooks and the teardown hooks of a suite, and the global setup
\* and teardown hooks of the pipeline, are each called in the order in which
\* they were registered: with every hook named by its registration rank, the
\* k-th hook called from a list is the k-th registered.
C26_HooksInRegistrationOrder ==
    \A p \in 1..Len(log) :
        log[p].kind \in {"setup", "teardown", "global_setup", "global_teardown"} =>
            /\ log[p].idx <= Len(RegisteredFor(log[p]))
            /\ log[p].idx =
                  Cardinality({q \in 1..p : /\ log[q].kind = log[p].kind
                                            /\ log[q].suite = log[p].suite})

\* run_all returned after the two teardown hooks of a suite ran, the first
\* registered first
C26_Witness ==
    /\ entry = "run_all" /\ pc = "done"
    /\ \E i \in 1..Len(test_suites) :
          /\ Len(test_suites[i].teardown_hooks) = 2
          /\ HooksRun("teardown", test_suites[i].name) = <<1, 2>>

\* the members the archive must hold after an export: every included artifact
\* under its archive path, and results.json with the dump of the results set
ExpectedMembers ==
    {[name |-> included_artifacts[i][2], data |-> <<"file", included_artifacts[i][1]>>] :
        i \in 1..Len(included_artifacts)}
    \cup {[name |-> "results.json", data |-> <<"json", result_model.doc>>]}

\* an export_archive call is being made
Exporting == exports' = exports + 1

\* first half of C27: export_archive called while no results are set raises
\* and leaves no archive behind (the file system is as it was)
C27_ExportWithoutResultsRaises ==
    [][(Exporting /\ result_model.none) =>
          /\ archive_exc' = "Exception"
          /\ archive' = archive]_vars

\* C27: export_archive called while no results are set raises and creates no
\* archive; called after set_results it returns with an archive that holds
\* results.json together with every artifact included so far.
C27_ExportRequiresResults ==
    [][Exporting =>
          IF result_model.none
          THEN /\ archive_exc' = "Exception"
               /\ archive' = archive
          ELSE /\ archive_exc' = "none"
               /\ archive'.created
               /\ Range(archive'.entries) = ExpectedMembers]_vars

\* ---------------------------------------------------------- configuration
\* str.upper
upper(text) ==
    [i \in 1..Len(text) |->
        IF \E k \in 1..Len(LowerCase) : LowerCase[k] = text[i]
        THEN UpperCase[CHOOSE k \in 1..Len(LowerCase) : LowerCase[k] = text[i]]
        ELSE text[i]]

\* the fields that are the key of a section
SectionKeys == {f \in Fields : Len(f) = 2}

\* {ENV_PREFIX}{SECTION}_{KEY}
EnvName(f) == <<"H", "M", "P", "_">> \o upper(f[1]) \o <<"_">> \o upper(f[2])

\* a text that can be converted to a type
Convertible(type, text) == type = "int" => ParseInt(text).ok

\* the text as a value of that type
Converted(type, text) ==
    IF type = "bool" THEN BoolV(lower(text) \in {<<"t", "r", "u", "e">>, <<"y", "e", "s">>, <<"1">>})
    ELSE IF type = "int" THEN IntV(ParseInt(text).n)
    ELSE StrV(text)

\* get_config() has returned a configuration
Loaded == DOMAIN app_config # {}

\* the loader reported that the merged values do not validate
ValidationFailed ==
    \E p \in 1..Len(logged) : logged[p] = Error("Configuration validation failed")

\* C28: an environment variable named {ENV_PREFIX}{SECTION}_{KEY} overrides
\* section.key, for every section and key, its text converted to the type of
\* the value it replaces (HMP_PATHS_OUTPUT_DIR overrides paths.output_dir).
C28_EnvVariableOverridesKey ==
    (Loaded /\ ~ValidationFailed) =>
        \A i \in 1..Len(environ) : \A f \in SectionKeys :
            (/\ environ[i].name = EnvName(f)
             /\ Convertible(FieldType[f], environ[i].value)) =>
                app_config[f] = Converted(FieldType[f], environ[i].value)

\* the configuration file that was read
FileLayer ==
    IF config_file \in {"default", "given"} THEN file_config ELSE <<>>

\* no variable of the environment carries the prefix
NoPrefixedVariable ==
    \A i \in 1..Len(environ) : ~IsPrefix(<<"H", "M", "P", "_">>, environ[i].name)

\* the text the environment gives for the controller timeout, if any
TimeoutTexts ==
    {environ[i].value : i \in {j \in 1..Len(environ) :
                                  environ[j].name = <<"H", "M", "P", "_", "C", "O", "N", "T", "R", "O", "L", "L", "E", "R", "_", "T", "I", "M", "E", "O", "U", "T">>}}

\* C29: the configuration get_config() returns is the built-in defaults,
\* overridden by the entries of the configuration file, overridden in turn by
\* the environment; with no file entry and no HMP_ variable it is the
\* defaults (controller timeout 10, use_simulator true); when the merged
\* values do not validate it is the defaults as a whole.
C29_LayeredWithFallback ==
    Loaded =>
        /\ (DOMAIN FileLayer = {} /\ NoPrefixedVariable) =>
              /\ app_config[Timeout] = IntV(10)
              /\ app_config[UseSimulator] = BoolV(TRUE)
              /\ app_config[OutputDir] = StrV(<<"o", "u", "t", "p", "u", "t">>)
              /\ app_config[SkipArchiving] = BoolV(FALSE)
        /\ (NoPrefixedVariable /\ ~ValidationFailed) =>
              \A f \in Fields :
                 app_config[f] = IF f \in DOMAIN FileLayer THEN FileLayer[f]
                                 ELSE Defaults[f]
        /\ ~ValidationFailed =>
              \A text \in TimeoutTexts : app_config[Timeout] = IntV(ParseInt(text).n)
        /\ (\/ \E text \in TimeoutTexts : ~ParseInt(text).ok
            \/ /\ TimeoutTexts = {}
               /\ Timeout \in DOMAIN FileLayer
               /\ FileLayer[Timeout].t = "str" /\ ~ParseInt(FileLayer[Timeout].s).ok
            \/ ValidationFailed) =>
              app_config = Defaults

\* the file sets the controller timeout to 20 and the output directory is
\* left to its default, the environment sets the timeout to 30: get_config()
\* returns 30 and "output"
C29_Witness ==
    /\ Loaded
    /\ Timeout \in DOMAIN FileLayer /\ FileLayer[Timeout] = IntV(20)
    /\ TimeoutTexts = {<<"3", "0">>}
    /\ app_config[Timeout] = IntV(30)
    /\ app_config[OutputDir] = StrV(<<"o", "u", "t", "p", "u", "t">>)

\* ------------------------------------------------- the entry point main picks
\* the pipeline method the selection lists of a configuration call for: ids
\* before categories before suites, everything when no list is given
EntryFor(cfg) ==
    IF cfg.test_execution.none THEN "run_all"
    ELSE IF ~cfg.test_execution.test_cases.none THEN "run_selected"
    ELSE IF ~cfg.test_execution.categories.none THEN "run_by_category"
    ELSE IF ~cfg.test_execution.suites.none THEN "run_suite"
    ELSE "run_all"

\* C30: main calls the pipeline entry point its configuration selects, with
\* precedence ids, categories, suites, everything: run_by_category when
\* test_execution gives only categories, run_suite when it gives only suites,
\* run_all when there is no test_execution.
C30_EntryPointByPrecedence ==
    (mpc # "none" /\ entry # "none") => entry = EntryFor(config)

\* ------------------------------------------------- registry consistency
\* C36: after a discovery pass every class that a lookup by category returns
\* declares that category among its `categories`.
C36_CategoryLookupDeclaresCategory ==
    pc = "idle" =>
        \A cat \in DOMAIN categories :
            \A cases \in get_test_cases_by_category(cat) :
                \A cls \in Range(cases) : cat \in Range(Classes[cls].categories)

\* the classes filed in some suite
InSuites == UNION {Range(test_suites[i].test_cases) : i \in 1..Len(test_suites)}

\* the classes that are the value of some id
InIdMap == {test_cases[id] : id \in DOMAIN test_cases}

\* C37: after a discovery pass the id map and the suite map hold the same
\* classes: a class is filed in some suite exactly when some id maps to it.
C37_IdMapAndSuitesAgree ==
    pc = "idle" => InSuites = InIdMap

\* the classes of the units that the scan skipped with a logged error
SkippedClasses == scanned \ Range(scan_order)

\* an id sits in a category set on behalf of a class that was registered
AccountedFor(id, cat) ==
    \E d \in Range(scan_order) :
        DiscoveredId(d) = id /\ cat \in Range(Classes[d].categories)

\* C38: when the scan is over, no class of a unit that was skipped because of
\* an error is in the id map or in a suite, and no category set holds its id
\* on its behalf.
C38_SkippedUnitLeavesNoTrace ==
    pc = "idle" =>
        \A cls \in SkippedClasses :
            /\ cls \notin InIdMap
            /\ cls \notin InSuites
            /\ \A cat \in DOMAIN categories :
                  DiscoveredId(cls) \in categories[cat]
                      => AccountedFor(DiscoveredId(cls), cat)

\* the classes of the results a returned group holds, in their order
GroupItemClasses(group) ==
    [i \in 1..Len(group.groupItems) |-> group.groupItems[i].cls]

\* C39: the group that run_by_category returns does not depend on the order in
\* which the id set of the category is iterated: whatever enumeration of that
\* set the lookup could have produced over the same registry, the results are
\* in that order and the group number is the one derived from its first class.
C39_CategoryRunOrderIndependent ==
    (entry = "run_by_category" /\ pc = "done") =>
        \A cases \in get_test_cases_by_category(category) :
            /\ GroupItemClasses(ret[1]) = cases
            /\ ret[1].number = GroupNumber(cases).number

\* positions of the log at which run() was called on an instance
RunCalls == {p \in 1..Len(log) : log[p].kind = "run"}

\* C35: when run_suite, run_by_category or run_selected has returned, run() was
\* called once for each result of the returned group, in the order of the
\* results, and not once more: deriving the group number from an instance
\* built with a None controller runs nothing.
C35_RunOncePerExecutedInstance ==
    (pc = "done" /\ entry \in {"run_suite", "run_by_category", "run_selected"}) =>
        /\ Cardinality(RunCalls) = Len(ret[1].groupItems)
        /\ \A p \in RunCalls :
              LET k == Cardinality({q \in RunCalls : q <= p})
              IN /\ k <= Len(ret[1].groupItems)
                 /\ ret[1].groupItems[k].result = log[p].outcome
        /\ \A p, q \in RunCalls : log[p].idx = log[q].idx => p = q

\* a suite of two classes has run and its group number came from an instance
\* of the first class
C35_Witness ==
    /\ pc = "done" /\ entry = "run_suite"
    /\ Len(ret[1].groupItems) = 2
    /\ ret[1].number = Split(Classes[ret[1].groupItems[1].cls].inst_number, ".")[1]
    /\ Cardinality(RunCalls) = 2

\* the test cases that were executed and returned a result, by the log
ExecutedResults ==
    {log[p].outcome : p \in {q \in 1..Len(log) : log[q].kind = "run"}} \ {"RAISE"}

\* C34: the overall result that main writes is FAIL exactly when some executed
\* test case returned FAIL, and PASS otherwise, also when no test case was
\* executed.
C34_OverallFailIffSomeCaseFailed ==
    report.written =>
        /\ report.overall \in {"PASS", "FAIL"}
        /\ report.overall = "FAIL" <=> "FAIL" \in ExecutedResults

\* a written report over a failed test case followed by a passed one
C34_Witness ==
    /\ report.written
    /\ report.overall = "FAIL"
    /\ \E g \in 1..Len(report.groups) :
          /\ Len(report.groups[g].groupItems) = 2
          /\ report.groups[g].groupItems[1].result = "FAIL"
          /\ report.groups[g].groupItems[2].result = "PASS"

\* the names of the members of the exported archive
ArchiveNames == {archive.entries[i].name : i \in 1..Len(archive.entries)}

\* the artifact paths recorded on the test cases of the exported document
RecordedPaths ==
    UNION {UNION {Range(items[k].artifacts) : k \in 1..Len(items)} :
              items \in {result_model.doc[g].groupItems :
                            g \in 1..Len(result_model.doc)}}

\* main has exported the archive of a run
Exported == mpc = "m_done" /\ archive.created /\ archive_exc = "none"

\* C33: when main has exported the archive, every artifact path recorded on a
\* test case of the result document is the name of a member of the archive,
\* whatever the output directory and with or without the simulator.
C33_RecordedArtifactsAreArchived ==
    Exported => RecordedPaths \subseteq ArchiveNames

RunsCommitted(f) ==
    {i \in 1..Len(committed) :
        committed[i].file = f /\ committed[i].table = "test_runs"}

\* C31: whatever the interleaving of the observer callbacks with the scan of
\* the main thread, no results file of the watched directory is ingested
\* twice: the database holds at most one test_runs row for it.
C31_IngestedAtMostOnce ==
    \A f \in Files : Cardinality(RunsCommitted(f)) <= 1

\* C32: none of the rows written by an attempt that failed is committed; a
\* file is in processed_files only when an attempt on it has committed, and a
\* thread adds a file only after its own attempt committed.  (A file that is
\* not in processed_files is attempted by every scan that meets it: Check.)
C32_FailedFileRolledBackAndRetried ==
    /\ \A i \in 1..Len(committed) :
          attempts[committed[i].attempt].result # "failed"
    /\ \A f \in processed_files :
          \E a \in 1..Len(attempts) :
              attempts[a].file = f /\ attempts[a].result = "committed"
    /\ \A t \in DOMAIN thr :
          thr[t].pc = "add" => attempts[thr[t].attempt].result = "committed"

====
